---- MODULE Spec2Model ----
(***************************************************************************)
(* Model of the POS printing app: the print job queue (enqueuePrint), the  *)
(* multi-printer routing resolver (handleMultiLanPrint and its helpers)    *)
(* and the print jobs of src/screens/DrawerContent.tsx (latest revision,   *)
(* lines 644-1844), with the transports reduced to their connection state; *)
(* the cut step at the end of a render (src/services/image.ts,             *)
(* src/services/receiptRenderer.ts and the cut of the transports); the     *)
(* Bluetooth sessions of the app (SpecBle); the layout helpers wrap,       *)
(* computeCols, amountAlignedRow and the item table (SpecLayout); the      *)
(* order of the blocks within one renderReceipt (SpecRender); the profile  *)
(* list of the queued routing jobs (SpecList); the queue under fair        *)
(* scheduling (SpecQueueLive); and the preference file of                  *)
(* src/services/prefs.ts (SpecPrefs).                                      *)
(***************************************************************************)
EXTENDS Integers, Sequences, FiniteSets, TLC

(***************************************************************************)
(* Bounds of the model.                                                    *)
(***************************************************************************)
MaxJobs == 4

\* Number of saved printer profiles in the store.
MaxProfiles == 2

\* Size of a routed document: its hint tokens, kitchen blocks and kitchen items.
MaxDocSize == 4

(***************************************************************************)
(* Program constants.                                                      *)
(***************************************************************************)
DEFAULT_NET_PORT == 9100

VARIABLES
  jobs,           \* the jobs passed to enqueuePrint, in call order
  body,           \* body[i]: "idle" | "running" | "returned" | "threw"
  p1,             \* p1[i]: state of  printChainRef.current.then(job)
  p2,             \* p2[i]: state of  p1.catch(() => {})
  p3,             \* p3[i]: state of  p2.then(() => {})   (the value `next`)
  printChainRef,  \* index of the job whose `next` is printChainRef.current; 0 = Promise.resolve()
  startLog,       \* history: indices of the jobs in the order their bodies started
  savedPrinters,  \* the component's savedPrinters state: list of NetPrinterProfile
  rDoc,           \* the payload given to handleMultiLanPrint
  rPhase,         \* "input" | "resolved"
  rTargets,       \* handleMultiLanPrint: targets
  rUnique,        \* handleMultiLanPrint: uniqueTargets
  rResult,        \* handleMultiLanPrint: the value returned when no target is executed
  mToken,         \* a hint token given to the resolvers
  mPhase,         \* "input" | "matched"
  mFound,         \* result of findSavedByIpToken
  mStoreFound,    \* result of resolveSavedPrinterByIpTokenInList
  cfg,            \* component state that the model keeps fixed: enableMultiNet, host, bleMac, receiptJson
  bleConnected,   \* React state bleConnected
  lanConnected,   \* React state lanConnected
  tasks,          \* tasks[i]: the running body of job i; tasks[0]: the connectNetwork handler
  lanOpen,        \* the SDK's NetPrinter connection is open
  bleOpen,        \* the SDK's BLEPrinter connection is open
  rendering,      \* the tasks that are inside renderReceipt
  cTransport,     \* the transport handed to a cut or render function
  cPhase,         \* "idle" | "input" | "done"
  cFn,            \* the function that ran on cTransport
  cOut,           \* what it did: the calls it made, in order, and how it ended
  triedBleOnce,   \* the ref triedBleOnce of the boot and foreground effects
  lIn,            \* the arguments given to a layout function
  lPhase,         \* "idle" | "input" | "done"
  lOut,           \* what the layout function returned
  dIn,            \* a render: the document, the transport and how the logo goes
  dPhase,         \* "idle" | "input" | "done"
  dFn,            \* the renderReceipt that ran
  dOut,           \* what it did: the calls it made, in order, and how it ended
  prefFile,       \* printer_prefs.json: the parsed object it holds
  writers,        \* writers[k]: a call of writePrefs, its position and its locals
  got             \* what a getNetPrinters() returned

queueVars == <<jobs, body, p1, p2, p3, printChainRef, startLog>>

routeVars == <<rDoc, rPhase, rTargets, rUnique, rResult>>

matchVars == <<mToken, mPhase, mFound, mStoreFound>>

appVars == <<cfg, bleConnected, lanConnected, tasks, lanOpen, bleOpen, rendering>>

cutVars == <<cTransport, cPhase, cFn, cOut>>

layoutVars == <<lIn, lPhase, lOut>>

renderVars == <<dIn, dPhase, dFn, dOut>>

prefsVars == <<prefFile, writers, got>>

sideVars == <<triedBleOnce, layoutVars, renderVars, prefsVars>>

vars == <<queueVars, savedPrinters, routeVars, matchVars, appVars, cutVars, sideVars>>

PromiseStates == {"pending", "fulfilled", "rejected"}

(***************************************************************************)
(* Print job queue: enqueuePrint                                           *)
(***************************************************************************)

\* State of the promise a job was chained on: 0 is the initial Promise.resolve().
ChainState(k) == IF k = 0 THEN "fulfilled" ELSE p3[k]

\* A variant of the queue that forgets to store `next` in printChainRef.
ChainRefNotStored(i) == printChainRef

\* Line 853: printChainRef.current = next.
ChainRefAfter(i) == i

\* A variant that calls job() at once instead of passing it to .then().
JobCalledAtOnce(i) == TRUE

\* Line 850: .then(job) calls job only once the promise it is chained on is fulfilled.
ThenCallsJob(i) == ChainState(jobs[i].prev) = "fulfilled"

\* A variant without the .catch(): the rejection passes through.
CatchMissing(s) == s

\* Line 851: .catch(() => {}) turns a rejection into a fulfilment.
CatchHandler(s) == "fulfilled"

\* enqueuePrint(job): chain the job on printChainRef.current and store the new tail.
Enqueue(kind) ==
  /\ Len(jobs) < MaxJobs
  /\ LET i == Len(jobs) + 1 IN
       /\ jobs' = Append(jobs, [kind |-> kind, prev |-> printChainRef])
       /\ body' = Append(body, "idle")
       /\ p1' = Append(p1, "pending")
       /\ p2' = Append(p2, "pending")
       /\ p3' = Append(p3, "pending")
       /\ printChainRef' = ChainRefAfter(i)
  /\ UNCHANGED startLog

\* The reaction of .then(job) to the settlement of the promise it is chained on.
ThenJob(i) ==
  /\ i \in 1..Len(jobs)
  /\ body[i] = "idle"
  /\ p1[i] = "pending"
  /\ IF ThenCallsJob(i)
       THEN /\ body' = [body EXCEPT ![i] = "running"]
            /\ startLog' = Append(startLog, i)
            /\ UNCHANGED p1
       ELSE /\ ChainState(jobs[i].prev) = "rejected"
            /\ p1' = [p1 EXCEPT ![i] = "rejected"]
            /\ UNCHANGED <<body, startLog>>
  /\ UNCHANGED <<jobs, p2, p3, printChainRef>>

\* The promise returned by a job settles: p1 follows it.
JobSettle(i, ok) ==
  /\ i \in 1..Len(jobs)
  /\ body[i] = "running"
  /\ body' = [body EXCEPT ![i] = IF ok THEN "returned" ELSE "threw"]
  /\ p1' = [p1 EXCEPT ![i] = IF ok THEN "fulfilled" ELSE "rejected"]
  /\ UNCHANGED <<jobs, p2, p3, printChainRef, startLog>>

CatchStep(i) ==
  /\ i \in 1..Len(jobs)
  /\ p1[i] # "pending"
  /\ p2[i] = "pending"
  /\ p2' = [p2 EXCEPT ![i] = IF p1[i] = "rejected" THEN CatchHandler(p1[i]) ELSE p1[i]]
  /\ UNCHANGED <<jobs, body, p1, p3, printChainRef, startLog>>

\* Line 852: .then(() => {}) follows p2.
ThenVoid(i) ==
  /\ i \in 1..Len(jobs)
  /\ p2[i] # "pending"
  /\ p3[i] = "pending"
  /\ p3' = [p3 EXCEPT ![i] = p2[i]]
  /\ UNCHANGED <<jobs, body, p1, p2, printChainRef, startLog>>

QueueInit ==
  /\ jobs = <<>>
  /\ body = <<>>
  /\ p1 = <<>>
  /\ p2 = <<>>
  /\ p3 = <<>>
  /\ printChainRef = 0
  /\ startLog = <<>>

(***************************************************************************)
(* Data of the routing resolver.  A hint token is the sequence of the      *)
(* pieces of the text between its ':' separators: <<"h1">> is "h1" and     *)
(* <<"h1", "9101">> is "h1:9101".  A port of 0 stands for a missing port.  *)
(***************************************************************************)
NoProfile == [host |-> "", port |-> 0, enabled |-> FALSE, copies |-> 0]

NoItem == [item_name |-> "", display_index |-> 0]

\* Number(p) for the port texts of the model; 0 stands for 0 and for NaN (both falsy).
NumberOf(p) ==
  CASE p = "9100" -> 9100
    [] p = "9101" -> 9101
    [] OTHER -> 0

\* DrawerContent.tsx parseIpToken: split(':'), the port text is the second piece.
parseIpToken(token) ==
  LET h == IF Len(token) >= 1 THEN token[1] ELSE ""
      p == IF Len(token) >= 2 THEN token[2] ELSE ""
  IN [host |-> h,
      port |-> IF p # "" /\ NumberOf(p) # 0 THEN NumberOf(p) ELSE DEFAULT_NET_PORT,
      hasPort |-> p # ""]

\* String(h || '').trim(): the hosts of the model carry no surrounding blanks.
normalizeHost(h) == h

normalizePort(p) == IF p > 0 THEN p ELSE DEFAULT_NET_PORT

\* The score findSavedByIpToken gives a profile; 0: the profile is not pushed.
MatchScore(token, prof) ==
  LET t == parseIpToken(token)
      pHost == normalizeHost(prof.host)
      pPort == normalizePort(prof.port)
  IN IF pHost = "" THEN 0
     ELSE IF t.hasPort
       THEN (IF pHost = t.host /\ pPort = t.port THEN 100 ELSE 0)
       ELSE (IF pHost = t.host THEN (IF pPort = DEFAULT_NET_PORT THEN 55 ELSE 50) ELSE 0)

\* findSavedByIpToken: the first profile of the stable sort by descending score.
findSavedByIpToken(token, list) ==
  LET cand == {i \in 1..Len(list) : MatchScore(token, list[i]) > 0}
      best == CHOOSE i \in cand : \A j \in cand :
                \/ MatchScore(token, list[j]) < MatchScore(token, list[i])
                \/ MatchScore(token, list[j]) = MatchScore(token, list[i]) /\ i <= j
  IN IF parseIpToken(token).host = "" \/ cand = {} THEN NoProfile ELSE list[best]

\* prefs.ts normalizeProfile (the fields of the model).
normalizeProfile(p) ==
  [host |-> p.host,
   port |-> IF p.port > 0 THEN p.port ELSE DEFAULT_NET_PORT,
   enabled |-> p.enabled,
   copies |-> IF p.copies > 0 THEN p.copies ELSE 1]

\* prefs.ts parseIpToken: a suffix ":<2 to 5 digits>" is the port, otherwise the
\* whole text is the host.  port 0: no port in the token.
storeParseIpToken(token) ==
  LET p == IF Len(token) >= 2 THEN token[2] ELSE ""
  IN IF Len(token) >= 2 /\ NumberOf(p) >= 10
       THEN [host |-> token[1], port |-> NumberOf(p), valid |-> token[1] # ""]
       ELSE [host |-> IF Len(token) >= 2 THEN token[1] \o ":" \o p ELSE token[1],
             port |-> 0, valid |-> token # <<>> /\ token # <<"">>]

\* prefs.ts resolveSavedPrinterByIpTokenInList: Array.find over the normalized list.
resolveSavedPrinterByIpTokenInList(token, list) ==
  LET parts == storeParseIpToken(token)
      norm == [i \in 1..Len(list) |-> normalizeProfile(list[i])]
      ok(p) == /\ p.enabled
               /\ p.host = parts.host
               /\ (parts.port # 0 =>
                     (IF p.port > 0 THEN p.port ELSE DEFAULT_NET_PORT) = parts.port)
      hits == {i \in 1..Len(norm) : ok(norm[i])}
  IN IF ~parts.valid \/ hits = {} THEN NoProfile
     ELSE norm[CHOOSE i \in hits : \A j \in hits : i <= j]

\* Array.from(new Set(out)): the first occurrence of every element, in order.
SeqDedup(s) ==
  LET F[i \in 0..Len(s)] ==
        IF i = 0 THEN <<>>
        ELSE IF \E j \in 1..(i - 1) : s[j] = s[i] THEN F[i - 1] ELSE Append(F[i - 1], s[i])
  IN F[Len(s)]

\* getKitchenIpsFromBlock: the tokens of the block's ip_address, duplicates removed.
getKitchenIpsFromBlock(k) == SeqDedup(k.ips)

\* handleMultiLanPrint lines 970-971: the cashier hints of the setting block.
CashierIps(json) == json.cashierIps

\* handleMultiLanPrint lines 976-983: kitchenEntries; idx is the 0-based block index.
KitchenEntries(json) ==
  [n \in 1..Len(json.kitchen) |->
     [block |-> json.kitchen[n],
      ips |-> getKitchenIpsFromBlock(json.kitchen[n]),
      individual |-> json.kitchen[n].individual,
      idx |-> n - 1]]

\* A variant that takes every document as carrying a hint.
HintAssumed(json) == TRUE

\* handleMultiLanPrint lines 992-996: the document carries at least one hint.
HasAnyHint(json) ==
  \/ Len(CashierIps(json)) > 0
  \/ \E n \in 1..Len(json.kitchen) : Len(KitchenEntries(json)[n].ips) > 0

\* handleMultiLanPrint lines 1009-1013.
CashierTargets(json, list) ==
  LET ips == CashierIps(json)
      F[i \in 0..Len(ips)] ==
        IF i = 0 THEN <<>>
        ELSE LET prof == findSavedByIpToken(ips[i], list)
             IN IF prof # NoProfile
                  THEN Append(F[i - 1], [profile |-> prof, type |-> "cashier", blockIdx |-> -1,
                                         hasItem |-> FALSE, item |-> NoItem, itemPos |-> 0])
                  ELSE F[i - 1]
  IN F[Len(ips)]

\* handleMultiLanPrint lines 1025-1030: the targets one matched hint of a block adds.
HintTargets(prof, entry) ==
  IF entry.individual
    THEN [n \in 1..Len(entry.block.items) |->
            [profile |-> prof, type |-> "kitchen", blockIdx |-> entry.idx,
             hasItem |-> TRUE, item |-> entry.block.items[n], itemPos |-> n]]
    ELSE << [profile |-> prof, type |-> "kitchen", blockIdx |-> entry.idx,
             hasItem |-> FALSE, item |-> NoItem, itemPos |-> 0] >>

\* handleMultiLanPrint lines 1017-1031: the targets of one kitchen entry.
EntryTargets(entry, list) ==
  LET F[i \in 0..Len(entry.ips)] ==
        IF i = 0 THEN <<>>
        ELSE LET prof == findSavedByIpToken(entry.ips[i], list)
             IN IF prof # NoProfile THEN F[i - 1] \o HintTargets(prof, entry) ELSE F[i - 1]
  IN F[Len(entry.ips)]

\* handleMultiLanPrint lines 1016-1032.
KitchenTargets(json, list) ==
  LET es == KitchenEntries(json)
      F[i \in 0..Len(es)] ==
        IF i = 0 THEN <<>> ELSE F[i - 1] \o EntryTargets(es[i], list)
  IN F[Len(es)]

\* A variant that lists the kitchen targets before the cashier targets.
KitchenTargetsFirst(json, list) == KitchenTargets(json, list) \o CashierTargets(json, list)

\* handleMultiLanPrint lines 1001-1032: targets.
Targets(json, list) == CashierTargets(json, list) \o KitchenTargets(json, list)

\* Line 1044: itemKey, `${item_name || ''}#${display_index || ''}`, '' without item.
ItemKey(t) == IF t.hasItem THEN <<t.item.item_name, t.item.display_index>> ELSE <<>>

\* Line 1043: t.profile.port || DEFAULT_NET_PORT.
PortOrDefault(p) == IF p = 0 THEN DEFAULT_NET_PORT ELSE p

\* Line 1045: key.
TargetKey(t) ==
  <<t.profile.host, PortOrDefault(t.profile.port), t.type, t.blockIdx, ItemKey(t)>>

\* A variant whose filter never adds the key to `seen`.
SeenNeverFilled(targets) == targets

\* Lines 1040-1049: uniqueTargets, the first target of every key.
UniqueTargets(targets) ==
  LET F[i \in 0..Len(targets)] ==
        IF i = 0 THEN <<>>
        ELSE IF \E j \in 1..(i - 1) : TargetKey(targets[j]) = TargetKey(targets[i])
               THEN F[i - 1]
               ELSE Append(F[i - 1], targets[i])
  IN F[Len(targets)]

\* A variant that reports a document whose hints match no profile as not handled.
ZeroTargetsUnhandled(json, list) ==
  IF ~HasAnyHint(json) \/ Len(Targets(json, list)) = 0 THEN "unhandled" ELSE "execute"

\* The way handleMultiLanPrint goes on after resolving (lines 993-996, 1034-1037).
RouteOutcome(json, list) ==
  IF ~HasAnyHint(json) THEN "unhandled"
  ELSE IF Len(Targets(json, list)) = 0 THEN "unmatched"
  ELSE "execute"

(***************************************************************************)
(* State of the print jobs while none is running.                          *)
(***************************************************************************)
NoDoc == [cashierIps |-> <<>>, kitchen |-> <<>>, cashier |-> FALSE]

NoCfg == [enableMultiNet |-> FALSE, host |-> "", bleMac |-> FALSE, receiptJson |-> NoDoc]

\* A task: the position of an async function body and its local variables.
IdleTask ==
  [pc |-> "idle", json |-> NoDoc, bleConnected |-> FALSE, lanConnected |-> FALSE,
   targets |-> <<>>, ti |-> 0, ci |-> 0, left |-> 0, owns |-> {},
   conn |-> 0, rend |-> 0, firstFailed |-> FALSE, didSomething |-> FALSE,
   res |-> "none", log |-> <<>>, savedPrinters |-> <<>>, list |-> <<>>]

\* The result of an awaited call: the calls made, whether it threw, and the
\* value it returned where the code tests one.
NoOut == [calls |-> <<>>, threw |-> FALSE, ok |-> TRUE]

NoTransport ==
  [kind |-> "none", cut |-> "absent", hasRaw |-> FALSE, rawFails |-> {},
   altFails |-> {}, text |-> FALSE]

NoFn == [name |-> "none", mode |-> ""]

CutIdle ==
  /\ cTransport = NoTransport
  /\ cPhase = "idle"
  /\ cFn = NoFn
  /\ cOut = NoOut

NoLayoutIn == [fn |-> "none", width |-> 0, words |-> <<>>, label |-> 0, value |-> 0]

NoLayoutOut == [lines |-> <<>>, row |-> <<>>, itemRow |-> <<>>, table |-> <<>>]

LayoutIdle ==
  /\ lIn = NoLayoutIn
  /\ lPhase = "idle"
  /\ lOut = NoLayoutOut

NoRenderIn == [doc |-> <<>>, tr |-> NoTransport, logo |-> "ok"]

RenderIdle ==
  /\ dIn = NoRenderIn
  /\ dPhase = "idle"
  /\ dFn = "none"
  /\ dOut = NoOut

\* The preferences while no call of prefs.ts is modelled.  A field of the
\* file that is missing has the value normalizePrefs and the callers take it
\* for: '' for ip and btAddress, 0 for port, [] for netPrinters, false for
\* enableMultiNet.
NoPrefs ==
  [ip |-> "", port |-> 0, btAddress |-> "", netPrinters |-> <<>>, enableMultiNet |-> FALSE]

NoPartial == [keys |-> {}, val |-> NoPrefs]

NoGot == [phase |-> "none", list |-> <<>>, after |-> <<>>]

PrefsIdle ==
  /\ prefFile = NoPrefs
  /\ writers = <<>>
  /\ got = NoGot

SideIdle ==
  /\ triedBleOnce = FALSE
  /\ LayoutIdle
  /\ RenderIdle
  /\ PrefsIdle

AppIdle ==
  /\ cfg = NoCfg
  /\ bleConnected = FALSE
  /\ lanConnected = FALSE
  /\ tasks = [t \in 0..MaxJobs |-> IdleTask]
  /\ lanOpen = FALSE
  /\ bleOpen = FALSE
  /\ rendering = {}


(***************************************************************************)
(* Inputs of the resolvers.                                                *)
(***************************************************************************)
RECURSIVE SeqsOfLen(_, _)
SeqsOfLen(S, n) ==
  IF n = 0 THEN {<<>>}
  ELSE {Append(s, x) : s \in SeqsOfLen(S, n - 1), x \in S}

SeqsUpTo(S, n) == UNION {SeqsOfLen(S, k) : k \in 0..n}

RouteProfiles == [host : {"h1"}, port : {9100, 9101}, enabled : {TRUE}, copies : {1}]

RouteTokens == {<<"h1">>, <<"h1", "9101">>}

RouteItems == {[item_name |-> "A", display_index |-> 0],
               [item_name |-> "A", display_index |-> 1]}

\* Kitchen blocks that count k: the block itself, its hint tokens and its items.
BlocksOfSize(k) ==
  UNION {[ips : SeqsOfLen(RouteTokens, a), items : SeqsOfLen(RouteItems, k - 1 - a),
          individual : BOOLEAN] : a \in 0..(k - 1)}

RECURSIVE KitchensOfSize(_)
KitchensOfSize(k) ==
  IF k = 0 THEN {<<>>}
  ELSE UNION {{<<b>> \o rest : b \in BlocksOfSize(j), rest \in KitchensOfSize(k - j)} :
                j \in 1..k}

DocsOfSize(n) ==
  UNION {[cashierIps : SeqsOfLen(RouteTokens, c), kitchen : KitchensOfSize(n - c)] :
           c \in 0..n}

RouteDocs == UNION {DocsOfSize(n) : n \in 0..MaxDocSize}

RouteIdle ==
  /\ rDoc = NoDoc
  /\ rPhase = "idle"
  /\ rTargets = <<>>
  /\ rUnique = <<>>
  /\ rResult = "none"

MatchIdle ==
  /\ mToken = <<>>
  /\ mPhase = "idle"
  /\ mFound = NoProfile
  /\ mStoreFound = NoProfile

(***************************************************************************)
(* SpecRoute: the resolution of handleMultiLanPrint on every document and  *)
(* profile list of the bounds.                                             *)
(***************************************************************************)
RouteInit ==
  /\ QueueInit
  /\ MatchIdle
  /\ AppIdle
  /\ CutIdle
  /\ SideIdle
  /\ savedPrinters \in SeqsUpTo(RouteProfiles, MaxProfiles)
  /\ rDoc \in RouteDocs
  /\ rPhase = "input"
  /\ rTargets = <<>>
  /\ rUnique = <<>>
  /\ rResult = "none"

\* handleMultiLanPrint up to the execution of the targets (lines 968-1051).
Resolve ==
  /\ rPhase = "input"
  /\ rPhase' = "resolved"
  /\ rTargets' = Targets(rDoc, savedPrinters)
  /\ rUnique' = UniqueTargets(Targets(rDoc, savedPrinters))
  /\ rResult' = RouteOutcome(rDoc, savedPrinters)
  /\ UNCHANGED <<queueVars, savedPrinters, rDoc, matchVars, appVars, cutVars, sideVars>>

SpecRoute == RouteInit /\ [][Resolve]_vars

\* The slice a target stands for: printer, section kind, block and item identity.
SliceKey(t) ==
  <<t.profile.host, t.profile.port, t.type, t.blockIdx,
    IF t.hasItem THEN <<t.item.item_name, t.item.display_index>> ELSE <<>> >>

\* C8: no two executed targets of a routing job have the same
\* (host, port, section kind, block index, item identity).
C8_NoDuplicateTargets ==
  \A i \in 1..Len(rUnique) : \A j \in 1..Len(rUnique) :
    i # j => SliceKey(rUnique[i]) # SliceKey(rUnique[j])

\* Two hint tokens of one kitchen block resolved to the same profile, and the
\* group target of that block is executed once.
C8_Witness ==
  /\ rPhase = "resolved"
  /\ \E i \in 1..Len(rTargets) : \E j \in 1..Len(rTargets) :
       /\ i < j
       /\ ~rTargets[i].hasItem
       /\ rTargets[i].type = "kitchen"
       /\ rTargets[i] = rTargets[j]
  /\ Len(rUnique) < Len(rTargets)

\* C9: a kitchen block with individual print and N items whose hint matches one
\* profile yields exactly N single-item targets with distinct item-identity keys.
C9_IndividualExpansion ==
  rPhase = "resolved" =>
    \A n \in 1..Len(rDoc.kitchen) :
      LET e == KitchenEntries(rDoc)[n]
          mine == {k \in 1..Len(rUnique) :
                     /\ rUnique[k].type = "kitchen"
                     /\ rUnique[k].blockIdx = e.idx
                     /\ rUnique[k].hasItem}
      IN (/\ e.individual
          /\ Len(e.ips) = 1
          /\ findSavedByIpToken(e.ips[1], savedPrinters) # NoProfile)
         => /\ Cardinality(mine) = Len(e.block.items)
            /\ \A a \in mine : \A b \in mine :
                 a # b => ItemKey(rUnique[a]) # ItemKey(rUnique[b])

(***************************************************************************)
(* SpecMatch: the two hint-token resolvers on every token and profile list *)
(* of the bounds.                                                          *)
(***************************************************************************)
MatchProfiles == [host : {"h1", "h2"}, port : {9100, 9101}, enabled : BOOLEAN, copies : {1}]

MatchTokens ==
  {<<h>> : h \in {"h1", "h2"}} \cup {<<h, p>> : h \in {"h1", "h2"}, p \in {"9100", "9101"}}

MatchInit ==
  /\ QueueInit
  /\ RouteIdle
  /\ AppIdle
  /\ CutIdle
  /\ SideIdle
  /\ savedPrinters \in SeqsUpTo(MatchProfiles, MaxProfiles)
  /\ mToken \in MatchTokens
  /\ mPhase = "input"
  /\ mFound = NoProfile
  /\ mStoreFound = NoProfile

Match ==
  /\ mPhase = "input"
  /\ mPhase' = "matched"
  /\ mFound' = findSavedByIpToken(mToken, savedPrinters)
  /\ mStoreFound' = resolveSavedPrinterByIpTokenInList(mToken, savedPrinters)
  /\ UNCHANGED <<queueVars, savedPrinters, routeVars, mToken, appVars, cutVars, sideVars>>

SpecMatch == MatchInit /\ [][Match]_vars

\* The claim of C10 about one resolver's answer `found` for the token mToken.
HintMatchingClaim(found) ==
  LET host == mToken[1]
      withPort == Len(mToken) = 2
      port == IF withPort THEN NumberOf(mToken[2]) ELSE 0
      stored == {savedPrinters[i] : i \in 1..Len(savedPrinters)}
      sameHost == {p \in stored : p.host = host}
  IN /\ withPort =>
          /\ found # NoProfile => (found.host = host /\ found.port = port)
          /\ (found = NoProfile) <=> ~(\E p \in stored : p.host = host /\ p.port = port)
     /\ ~withPort =>
          /\ found # NoProfile => found \in sameHost
          /\ (found = NoProfile) <=> (sameHost = {})
          /\ (\E p \in sameHost : p.port = DEFAULT_NET_PORT) => found.port = DEFAULT_NET_PORT

\* C10: a token with a port resolves only to the profile with that host and port,
\* a token without a port to a profile of that host, the one on port 9100 when
\* several share the host, and a token matching no profile to nothing; for both
\* resolvers of the program.
C10_HintMatching ==
  mPhase = "matched" =>
    /\ HintMatchingClaim(mFound)
    /\ HintMatchingClaim(mStoreFound)

\* The same claim for the resolver that routing uses, findSavedByIpToken, alone.
RoutingResolverMatchesHints ==
  mPhase = "matched" => HintMatchingClaim(mFound)

(***************************************************************************)
(* SpecQueue: enqueuePrint under arbitrary jobs (a job may resolve or      *)
(* reject).                                                                *)
(***************************************************************************)
notQueue == <<savedPrinters, routeVars, matchVars, appVars, cutVars, sideVars>>

EnqueueAny == Enqueue("job") /\ UNCHANGED notQueue

RunThenJob == (\E i \in 1..MaxJobs : ThenJob(i)) /\ UNCHANGED notQueue

AnyJobSettles ==
  (\E i \in 1..MaxJobs, ok \in BOOLEAN : JobSettle(i, ok)) /\ UNCHANGED notQueue

RunCatchStep == (\E i \in 1..MaxJobs : CatchStep(i)) /\ UNCHANGED notQueue

RunThenVoid == (\E i \in 1..MaxJobs : ThenVoid(i)) /\ UNCHANGED notQueue

QueueNext ==
  \/ EnqueueAny
  \/ RunThenJob
  \/ AnyJobSettles
  \/ RunCatchStep
  \/ RunThenVoid

QueueOnlyInit ==
  /\ QueueInit
  /\ RouteIdle
  /\ MatchIdle
  /\ AppIdle
  /\ CutIdle
  /\ SideIdle
  /\ savedPrinters = <<>>

SpecQueue == QueueOnlyInit /\ [][QueueNext]_vars

Running == {i \in 1..Len(jobs) : body[i] = "running"}

\* C1: a job body does not start before the promise of the previously enqueued
\* job has settled, and at most one job body is running at any moment.
C1_OneJobAtATime ==
  /\ Cardinality(Running) <= 1
  /\ \A i \in 2..Len(jobs) : body[i] # "idle" => p3[i - 1] # "pending"

\* A job runs while a later job waits behind it and an earlier one has settled.
C1_Witness ==
  /\ Len(jobs) >= 3
  /\ body[2] = "running"
  /\ body[3] = "idle"
  /\ p3[1] # "pending"

\* C2: job bodies start in the order of the enqueuePrint calls, and a job has
\* settled before any later job starts.
C2_Fifo ==
  /\ \A k \in 1..Len(startLog) : startLog[k] = k
  /\ \A i \in 1..Len(jobs) : \A j \in 1..Len(jobs) :
       (i < j /\ body[j] # "idle") => body[i] \in {"returned", "threw"}

\* All jobs were enqueued before the first started, and all have started.
C2_Witness ==
  /\ Len(startLog) = 3
  /\ body[1] = "threw"
  /\ body[2] = "returned"
  /\ body[3] = "running"

\* C3: a job that rejects does not poison the queue: the chain promise is never
\* rejected, no job is skipped, and the job behind a failed one can start.
C3_ChainSurvives ==
  /\ \A i \in 1..Len(jobs) : p3[i] # "rejected" /\ p2[i] # "rejected"
  /\ \A i \in 1..Len(jobs) : p1[i] = "rejected" => body[i] = "threw"
  /\ \A i \in 2..Len(jobs) :
       (body[i - 1] = "threw" /\ p3[i - 1] # "pending" /\ body[i] = "idle")
         => ENABLED ThenJob(i)

\* A job runs after the job before it has thrown.
C3_Witness ==
  /\ Len(jobs) >= 3
  /\ body[1] = "threw"
  /\ body[2] = "threw"
  /\ body[3] = "running"

(***************************************************************************)
(* The print jobs of the drawer: printReceiptBle, printReceiptLan and the  *)
(* PRINT_JSON listener, which go through enqueuePrint, and the             *)
(* connectNetwork handler, which prints without it.                        *)
(***************************************************************************)

\* Number of queued print jobs of a run.
MaxPrintJobs == 1

KindOf(t) == IF t = 0 THEN "connect" ELSE jobs[t].kind

\* A variant that hands on the whole payload.
WholeJson(json) == json

\* Lines 1155-1160 and 1299: the payload without its non-kitchen blocks.
KitchenOnly(json) == [json EXCEPT !.cashierIps = <<>>, !.cashier = FALSE]

\* The payload handed to handleMultiLanPrint (lines 1103, 1164, 1336).
RoutedJson(t) ==
  IF KindOf(t) = "connect" THEN tasks[t].json ELSE KitchenOnly(tasks[t].json)

\* A variant that prints every target once.
SingleCopy(profile) == 1

\* Line 1055: copies of a target.
Copies(profile) == IF profile.copies > 0 THEN profile.copies ELSE 1

\* Tickets rendered by the legacy loop over kitchen blocks (lines 1193-1206, 1345-1358).
LegacyTickets(kitchen) ==
  LET F[i \in 0..Len(kitchen)] ==
        IF i = 0 THEN 0
        ELSE F[i - 1] + (IF kitchen[i].individual THEN Len(kitchen[i].items) ELSE 1)
  IN F[Len(kitchen)]

\* Lines 1107-1121: connectNetwork prints the first kitchen block only.
FirstBlockTickets(kitchen) ==
  IF Len(kitchen) = 0 THEN 0 ELSE LegacyTickets(SubSeq(kitchen, 1, 1))

SetTask(t, r) == tasks' = [tasks EXCEPT ![t] = r]

fixedVars == <<savedPrinters, routeVars, matchVars, cfg, cutVars, sideVars>>

(***************************************************************************)
(* Documents and settings of the app runs.                                 *)
(***************************************************************************)
\* A profile as the Add Printer dialog stores it (lines 1709-1725): without copies;
\* copies = 0 stands for the missing field.
Printer9100 == [host |-> "h1", port |-> 9100, enabled |-> TRUE, copies |-> 0]

Printer9101 == [host |-> "h1", port |-> 9101, enabled |-> TRUE, copies |-> 2]

ItemA(k) == [item_name |-> "A", display_index |-> k]

\* A receipt with one kitchen block sent as a group to two printers.
GroupDoc ==
  [cashierIps |-> <<>>,
   kitchen |-> << [ips |-> << <<"h1">>, <<"h1", "9101">> >>, items |-> <<ItemA(1)>>,
                   individual |-> FALSE] >>,
   cashier |-> TRUE]

\* A receipt with a cashier hint and one kitchen block printed item by item.
ItemsDoc ==
  [cashierIps |-> << <<"h1">> >>,
   kitchen |-> << [ips |-> << <<"h1">> >>, items |-> <<ItemA(1), ItemA(2)>>,
                   individual |-> TRUE] >>,
   cashier |-> TRUE]

\* A receipt without kitchen blocks and without hints.
CashierDoc == [cashierIps |-> <<>>, kitchen |-> <<>>, cashier |-> TRUE]

\* A kitchen-only payload whose hint names an unknown host.
StrayDoc ==
  [cashierIps |-> <<>>,
   kitchen |-> << [ips |-> << <<"h2">> >>, items |-> <<ItemA(1)>>, individual |-> FALSE] >>,
   cashier |-> FALSE]

\* A kitchen-only payload without hints.
PlainDoc ==
  [cashierIps |-> <<>>,
   kitchen |-> << [ips |-> <<>>, items |-> <<ItemA(1)>>, individual |-> FALSE] >>,
   cashier |-> FALSE]

\* A receipt with two cashier hints and one kitchen block sent as a group.
FullDoc ==
  [cashierIps |-> << <<"h1", "9101">>, <<"h1">> >>,
   kitchen |-> << [ips |-> << <<"h1">> >>, items |-> <<ItemA(1)>>, individual |-> FALSE] >>,
   cashier |-> TRUE]

AppDocs == {GroupDoc, ItemsDoc, CashierDoc, StrayDoc, PlainDoc}

AppSetups ==
  {[cfg |-> [enableMultiNet |-> TRUE, host |-> "h1", bleMac |-> TRUE, receiptJson |-> FullDoc],
    savedPrinters |-> <<Printer9100, Printer9101>>,
    bleConnected |-> TRUE, lanConnected |-> FALSE],
   [cfg |-> [enableMultiNet |-> TRUE, host |-> "h1", bleMac |-> FALSE, receiptJson |-> ItemsDoc],
    savedPrinters |-> <<Printer9100>>,
    bleConnected |-> FALSE, lanConnected |-> TRUE],
   [cfg |-> [enableMultiNet |-> FALSE, host |-> "h1", bleMac |-> TRUE, receiptJson |-> ItemsDoc],
    savedPrinters |-> <<>>,
    bleConnected |-> TRUE, lanConnected |-> TRUE],
   [cfg |-> [enableMultiNet |-> TRUE, host |-> "h1", bleMac |-> FALSE, receiptJson |-> StrayDoc],
    savedPrinters |-> <<Printer9100>>,
    bleConnected |-> FALSE, lanConnected |-> TRUE]}

(***************************************************************************)
(* Triggers.                                                               *)
(***************************************************************************)
QueuedTask(json) ==
  [IdleTask EXCEPT !.pc = "queued", !.json = json,
                   !.bleConnected = bleConnected, !.lanConnected = lanConnected,
                   !.savedPrinters = savedPrinters]

EnqueueJob(kind, json) ==
  /\ Len(jobs) < MaxPrintJobs
  /\ Enqueue(kind)
  /\ SetTask(Len(jobs) + 1, QueuedTask(json))
  /\ UNCHANGED <<fixedVars, bleConnected, lanConnected, lanOpen, bleOpen, rendering>>

\* Line 1486: the button is shown while bleConnected.
PressPrintBle == bleConnected /\ EnqueueJob("ble", cfg.receiptJson)

\* Line 1544: the button is shown while lanConnected.
PressPrintLan == lanConnected /\ EnqueueJob("lan", cfg.receiptJson)

\* Lines 1291-1292: a PRINT_JSON event.
PrintJsonEvent == \E json \in AppDocs : EnqueueJob("event", json)

\* Lines 1558-1561: the button is shown while not lanConnected and enabled with a host.
\* Line 1084: the handler runs at once, outside the queue.
PressConnect ==
  /\ ~lanConnected
  /\ cfg.host # ""
  /\ tasks[0].pc = "idle"
  /\ SetTask(0, [IdleTask EXCEPT !.pc = "start", !.json = cfg.receiptJson])
  /\ UNCHANGED <<queueVars, fixedVars, bleConnected, lanConnected, lanOpen, bleOpen,
                 rendering>>

\* Line 850: the chain calls the job.
StartJob ==
  \E i \in 1..MaxJobs :
    /\ ThenJob(i)
    /\ IF ThenCallsJob(i)
         THEN SetTask(i, [tasks[i] EXCEPT !.pc = "start"])
         ELSE UNCHANGED tasks
    /\ UNCHANGED <<fixedVars, bleConnected, lanConnected, lanOpen, bleOpen, rendering>>

ChainCatch ==
  (\E i \in 1..MaxJobs : CatchStep(i)) /\ UNCHANGED notQueue

ChainThen ==
  (\E i \in 1..MaxJobs : ThenVoid(i)) /\ UNCHANGED notQueue

(***************************************************************************)
(* Entry of each body.                                                     *)
(***************************************************************************)
onlyTask == <<queueVars, fixedVars, bleConnected, lanConnected, lanOpen, bleOpen,
              rendering>>

\* Lines 901-907: printReceiptBle up to the connect; perm is ensureBtPerms().
BleBegin(t) ==
  /\ tasks[t].pc = "start"
  /\ KindOf(t) = "ble"
  /\ \E perm \in BOOLEAN :
       SetTask(t, [tasks[t] EXCEPT !.pc = IF cfg.bleMac /\ perm THEN "ble_connect" ELSE "end"])
  /\ UNCHANGED onlyTask

\* Lines 1297-1307: the listener up to the BLE connect, with the state it captured.
EventBegin(t) ==
  /\ tasks[t].pc = "start"
  /\ KindOf(t) = "event"
  /\ \E perm \in BOOLEAN :
       SetTask(t, [tasks[t] EXCEPT !.pc =
         IF tasks[t].bleConnected /\ cfg.bleMac /\ tasks[t].json.cashier /\ perm
           THEN "ble_connect" ELSE "kitchen"])
  /\ UNCHANGED onlyTask

\* Lines 1333-1343: the kitchen half of the listener.
EventKitchen(t) ==
  /\ tasks[t].pc = "kitchen"
  /\ SetTask(t, [tasks[t] EXCEPT !.pc =
       IF Len(tasks[t].json.kitchen) = 0 THEN "end"
       ELSE IF cfg.enableMultiNet /\ Len(savedPrinters) > 0 THEN "mr_resolve"
       ELSE IF tasks[t].lanConnected /\ cfg.host # "" THEN "leg_connect"
       ELSE "end"])
  /\ UNCHANGED onlyTask

\* Lines 1154-1164: printReceiptLan up to routing or the legacy print.
LanBegin(t) ==
  /\ tasks[t].pc = "start"
  /\ KindOf(t) = "lan"
  /\ SetTask(t, [tasks[t] EXCEPT !.pc =
       IF Len(tasks[t].json.kitchen) = 0 THEN "end"
       ELSE IF cfg.enableMultiNet /\ Len(savedPrinters) > 0 THEN "mr_resolve"
       ELSE IF cfg.host = "" THEN "end"
       ELSE "leg_connect"])
  /\ UNCHANGED onlyTask

\* Lines 1086-1107: connectNetwork connects, marks the LAN connected and goes on
\* to routing or to the first kitchen block; a failed connect ends in the outer catch.
ConnectBegin(ok) ==
  /\ tasks[0].pc = "start"
  /\ lanOpen' = IF ok THEN TRUE ELSE lanOpen
  /\ lanConnected' = ok
  /\ LET n == FirstBlockTickets(tasks[0].json.kitchen) IN
       SetTask(0, [tasks[0] EXCEPT
         !.pc = IF ~ok THEN "end"
                ELSE IF cfg.enableMultiNet /\ Len(savedPrinters) > 0 THEN "mr_resolve"
                ELSE IF n = 0 THEN "end" ELSE "leg_render",
         !.left = n,
         !.owns = IF ok THEN {"lan"} ELSE {}])
  /\ UNCHANGED <<queueVars, fixedVars, bleConnected, bleOpen, rendering>>

(***************************************************************************)
(* The BLE print of printReceiptBle (908-934) and of the listener          *)
(* (1308-1328).                                                            *)
(***************************************************************************)
\* Lines 908-911 / 1308-1311: ble.disconnect, then session.connect, outside the inner try.
\* Lines 925-928 / 1317-1320: session.disconnect, then session2.connect, in the catch.
BleConnect(t, ok) ==
  /\ tasks[t].pc \in {"ble_connect", "ble_reconnect"}
  /\ bleOpen' = ok
  /\ LET r == [tasks[t] EXCEPT !.conn = @ + 1,
                               !.firstFailed = @ \/ (tasks[t].pc = "ble_connect" /\ ~ok),
                               !.owns = IF ok THEN @ \cup {"ble"} ELSE @ \ {"ble"}]
     IN IF ok
          THEN /\ SetTask(t, [r EXCEPT !.pc = IF tasks[t].pc = "ble_connect"
                                                THEN "ble_render" ELSE "ble_render2"])
          ELSE /\ SetTask(t, [r EXCEPT !.pc = "caught"])
  /\ UNCHANGED <<queueVars, fixedVars, bleConnected, lanConnected, lanOpen, rendering>>

\* Lines 923, 929 / 1313, 1321: renderReceipt is entered.
BleRenderBegin(t) ==
  /\ tasks[t].pc \in {"ble_render", "ble_render2"}
  /\ rendering' = rendering \cup {t}
  /\ SetTask(t, [tasks[t] EXCEPT !.rend = @ + 1,
                                 !.pc = IF @ = "ble_render" THEN "ble_rendering"
                                                            ELSE "ble_rendering2"])
  /\ UNCHANGED <<queueVars, fixedVars, bleConnected, lanConnected, lanOpen, bleOpen>>

\* renderReceipt returns or throws.  The first failure enters the catch (924 / 1316);
\* the second leaves the job through the outer catch (935 / 1446) with session2
\* connected; a second success disconnects session2 (930 / 1323).
BleRenderEnd(t, ok) ==
  /\ tasks[t].pc \in {"ble_rendering", "ble_rendering2"}
  /\ rendering' = rendering \ {t}
  /\ LET first == tasks[t].pc = "ble_rendering"
         r == [tasks[t] EXCEPT !.firstFailed = @ \/ (first /\ ~ok)]
     IN IF ok
          THEN /\ SetTask(t, [r EXCEPT !.pc = "ble_after",
                                       !.owns = IF first THEN @ ELSE @ \ {"ble"}])
               /\ bleOpen' = IF first THEN bleOpen ELSE FALSE
          ELSE IF first
            THEN /\ SetTask(t, [r EXCEPT !.pc = "ble_reconnect"])
                 /\ UNCHANGED bleOpen
            ELSE /\ SetTask(t, [r EXCEPT !.pc = "caught"])
                 /\ UNCHANGED bleOpen
  /\ UNCHANGED <<queueVars, fixedVars, bleConnected, lanConnected, lanOpen>>

\* Lines 932-934 / 1325-1328: session.disconnect, setBleConnected(true).
BleAfter(t) ==
  /\ tasks[t].pc = "ble_after"
  /\ bleOpen' = FALSE
  /\ bleConnected' = TRUE
  /\ SetTask(t, [tasks[t] EXCEPT !.owns = @ \ {"ble"},
                                 !.conn = 0, !.rend = 0, !.firstFailed = FALSE,
                                 !.didSomething = @ \/ (KindOf(t) = "event"),
                                 !.pc = IF KindOf(t) = "event" THEN "kitchen" ELSE "end"])
  /\ UNCHANGED <<queueVars, fixedVars, lanConnected, lanOpen, rendering>>

(***************************************************************************)
(* handleMultiLanPrint (968-1081) and printToSingleNetProfile (944-965).   *)
(***************************************************************************)
\* The caller after handleMultiLanPrint returned (1104-1107, 1165-1186, 1338).
RouteReturn(t, handled, matched, r) ==
  LET q == [r EXCEPT !.targets = <<>>, !.ti = 0, !.ci = 0,
                     !.res = IF ~handled THEN "unhandled"
                             ELSE IF matched THEN "matched" ELSE "unmatched"] IN
    CASE KindOf(t) = "event" ->
           [q EXCEPT !.pc = "end", !.didSomething = @ \/ matched]
      [] KindOf(t) = "lan" ->
           [q EXCEPT !.pc = IF cfg.host = "" THEN "end" ELSE "leg_connect"]
      [] OTHER ->
           [q EXCEPT !.pc = IF handled \/ r.left = 0 THEN "end" ELSE "leg_render"]

\* Line 1168: printReceiptLan marks the LAN connected after a matched routing.
RouteReturnLan(t, handled, matched) ==
  IF KindOf(t) = "lan" /\ handled /\ matched THEN TRUE ELSE lanConnected

\* Lines 968-1051: resolution; without hints or without targets the function returns.
MultiResolve(t) ==
  /\ tasks[t].pc = "mr_resolve"
  /\ LET json == RoutedJson(t)
         outcome == RouteOutcome(json, savedPrinters)
         unique == UniqueTargets(Targets(json, savedPrinters))
     IN IF outcome = "execute"
          THEN /\ SetTask(t, [tasks[t] EXCEPT !.pc = "ps_connect", !.targets = unique,
                                              !.ti = 1, !.ci = 0, !.log = <<>>])
               /\ UNCHANGED lanConnected
          ELSE /\ SetTask(t, RouteReturn(t, outcome = "unmatched", FALSE, tasks[t]))
               /\ lanConnected' = RouteReturnLan(t, outcome = "unmatched", FALSE)
  /\ UNCHANGED <<queueVars, fixedVars, bleConnected, lanOpen, bleOpen, rendering>>

\* Lines 950-951: lan.connect before the try; lines 958-959: lan.connect in the catch.
\* A failure is thrown to handleMultiLanPrint, which has no handler, and on to the caller.
SingleConnect(t, ok) ==
  /\ tasks[t].pc \in {"ps_connect", "ps_reconnect"}
  /\ lanOpen' = IF ok THEN TRUE ELSE lanOpen
  /\ LET r == [tasks[t] EXCEPT !.conn = @ + 1,
                               !.firstFailed = @ \/ (tasks[t].pc = "ps_connect" /\ ~ok),
                               !.owns = IF ok THEN @ \cup {"lan"} ELSE @]
     IN IF ok
          THEN /\ SetTask(t, [r EXCEPT !.pc = IF tasks[t].pc = "ps_connect"
                                                THEN "ps_render" ELSE "ps_render2"])
          ELSE /\ SetTask(t, [r EXCEPT !.pc = "caught"])
  /\ UNCHANGED <<queueVars, fixedVars, bleConnected, lanConnected, bleOpen, rendering>>

\* Lines 954, 960: renderReceipt is entered.
SingleRenderBegin(t) ==
  /\ tasks[t].pc \in {"ps_render", "ps_render2"}
  /\ rendering' = rendering \cup {t}
  /\ SetTask(t, [tasks[t] EXCEPT !.rend = @ + 1,
                                 !.pc = IF @ = "ps_render" THEN "ps_rendering"
                                                           ELSE "ps_rendering2"])
  /\ UNCHANGED <<queueVars, fixedVars, bleConnected, lanConnected, lanOpen, bleOpen>>

\* renderReceipt returns (its final cut closes the SDK connection) or throws:
\* the first failure enters the catch (956), the second is thrown to the caller.
SingleRenderEnd(t, ok) ==
  /\ tasks[t].pc \in {"ps_rendering", "ps_rendering2"}
  /\ rendering' = rendering \ {t}
  /\ LET first == tasks[t].pc = "ps_rendering"
         r == [tasks[t] EXCEPT !.firstFailed = @ \/ (first /\ ~ok)]
     IN IF ok
          THEN /\ SetTask(t, [r EXCEPT !.pc = "ps_disconnect", !.owns = @ \ {"lan"}])
               /\ lanOpen' = FALSE
          ELSE IF first
            THEN /\ SetTask(t, [r EXCEPT !.pc = "ps_reconnect"])
                 /\ UNCHANGED lanOpen
            ELSE /\ SetTask(t, [r EXCEPT !.pc = "caught"])
                 /\ UNCHANGED lanOpen
  /\ UNCHANGED <<queueVars, fixedVars, bleConnected, lanConnected, bleOpen>>

\* Lines 963-964: lan.disconnect; then the next copy (1063, 1074), the next target
\* (1054) or the return of line 1080.
SingleDisconnect(t) ==
  /\ tasks[t].pc = "ps_disconnect"
  /\ lanOpen' = FALSE
  /\ LET r == [tasks[t] EXCEPT !.owns = @ \ {"lan"}, !.conn = 0, !.rend = 0,
                               !.firstFailed = FALSE, !.log = Append(@, tasks[t].ti)]
         more == r.ci + 1 < Copies(r.targets[r.ti].profile)
     IN IF more
          THEN /\ SetTask(t, [r EXCEPT !.ci = @ + 1, !.pc = "ps_connect"])
               /\ UNCHANGED lanConnected
          ELSE IF r.ti < Len(r.targets)
            THEN /\ SetTask(t, [r EXCEPT !.ti = @ + 1, !.ci = 0, !.pc = "ps_connect"])
                 /\ UNCHANGED lanConnected
            ELSE /\ SetTask(t, RouteReturn(t, TRUE, TRUE, r))
                 /\ lanConnected' = RouteReturnLan(t, TRUE, TRUE)
  /\ UNCHANGED <<queueVars, fixedVars, bleConnected, bleOpen, rendering>>

(***************************************************************************)
(* The legacy single-host kitchen print (1188-1208, 1342-1363, 1107-1121). *)
(***************************************************************************)
\* Lines 1189-1190 / 1342-1343: lan.connect to the typed host.
LegacyConnect(t, ok) ==
  /\ tasks[t].pc = "leg_connect"
  /\ lanOpen' = IF ok THEN TRUE ELSE lanOpen
  /\ LET n == LegacyTickets(tasks[t].json.kitchen) IN
       SetTask(t, [tasks[t] EXCEPT
         !.pc = IF ~ok THEN "caught" ELSE IF n = 0 THEN "leg_done" ELSE "leg_render",
         !.left = n,
         !.owns = IF ok THEN @ \cup {"lan"} ELSE @])
  /\ UNCHANGED <<queueVars, fixedVars, bleConnected, lanConnected, bleOpen, rendering>>

\* Lines 1199, 1204 / 1351, 1356 / 1114, 1119: renderReceipt is entered.
LegacyRenderBegin(t) ==
  /\ tasks[t].pc = "leg_render"
  /\ rendering' = rendering \cup {t}
  /\ SetTask(t, [tasks[t] EXCEPT !.pc = "leg_rendering"])
  /\ UNCHANGED <<queueVars, fixedVars, bleConnected, lanConnected, lanOpen, bleOpen>>

\* renderReceipt returns (its final cut closes the SDK connection) or throws; only
\* the listener disconnects on the way out (finally, 1361-1363).
LegacyRenderEnd(t, ok) ==
  /\ tasks[t].pc = "leg_rendering"
  /\ rendering' = rendering \ {t}
  /\ IF ok
       THEN /\ lanOpen' = FALSE
            /\ SetTask(t, [tasks[t] EXCEPT !.left = @ - 1, !.owns = @ \ {"lan"},
                                           !.pc = IF tasks[t].left = 1 THEN "leg_done"
                                                                       ELSE "leg_render"])
       ELSE /\ lanOpen' = IF KindOf(t) = "event" THEN FALSE ELSE lanOpen
            /\ SetTask(t, [tasks[t] EXCEPT
                 !.pc = "caught",
                 !.owns = IF KindOf(t) = "event" THEN @ \ {"lan"} ELSE @])
  /\ UNCHANGED <<queueVars, fixedVars, bleConnected, lanConnected, bleOpen>>

\* Line 1208 / lines 1359-1363: after the loop.
LegacyDone(t) ==
  /\ tasks[t].pc = "leg_done"
  /\ lanConnected' = IF KindOf(t) \in {"lan", "event"} THEN TRUE ELSE lanConnected
  /\ lanOpen' = IF KindOf(t) = "event" THEN FALSE ELSE lanOpen
  /\ SetTask(t, [tasks[t] EXCEPT
       !.pc = "end",
       !.didSomething = @ \/ (KindOf(t) = "event"),
       !.owns = IF KindOf(t) = "event" THEN @ \ {"lan"} ELSE @])
  /\ UNCHANGED <<queueVars, fixedVars, bleConnected, bleOpen, rendering>>

(***************************************************************************)
(* End of a body.                                                          *)
(***************************************************************************)
\* The sessions a task connected and that are open when it ends.
LeftOpen(t) ==
  {x \in tasks[t].owns : IF x = "lan" THEN lanOpen ELSE bleOpen}

\* Every job body catches what is thrown inside it (935, 1209, 1446): it returns.
JobReturns(i) ==
  /\ i >= 1
  /\ tasks[i].pc \in {"end", "caught"}
  /\ JobSettle(i, TRUE)
  /\ SetTask(i, [IdleTask EXCEPT !.pc = "done"])
  /\ UNCHANGED <<fixedVars, bleConnected, lanConnected, lanOpen, bleOpen, rendering>>

\* Lines 1122-1132: connectNetwork ends.
ConnectReturns ==
  /\ tasks[0].pc \in {"end", "caught"}
  /\ SetTask(0, IdleTask)
  /\ UNCHANGED <<queueVars, fixedVars, bleConnected, lanConnected, lanOpen, bleOpen,
                 rendering>>

(***************************************************************************)
(* Spec: the app with its triggers.                                        *)
(***************************************************************************)
Init ==
  /\ QueueInit
  /\ RouteIdle
  /\ MatchIdle
  /\ CutIdle
  /\ SideIdle
  /\ \E s \in AppSetups :
       /\ cfg = s.cfg
       /\ savedPrinters = s.savedPrinters
       /\ bleConnected = s.bleConnected
       /\ lanConnected = s.lanConnected
       /\ lanOpen = s.lanConnected
       /\ bleOpen = s.bleConnected
  /\ tasks = [t \in 0..MaxJobs |-> IdleTask]
  /\ rendering = {}

TaskIds == 0..MaxJobs

Next ==
  \/ PressPrintBle
  \/ PressPrintLan
  \/ PrintJsonEvent
  \/ PressConnect
  \/ StartJob
  \/ ChainCatch
  \/ ChainThen
  \/ \E t \in TaskIds : BleBegin(t)
  \/ \E t \in TaskIds : EventBegin(t)
  \/ \E t \in TaskIds : EventKitchen(t)
  \/ \E t \in TaskIds : LanBegin(t)
  \/ \E ok \in BOOLEAN : ConnectBegin(ok)
  \/ \E t \in TaskIds, ok \in BOOLEAN : BleConnect(t, ok)
  \/ \E t \in TaskIds : BleRenderBegin(t)
  \/ \E t \in TaskIds, ok \in BOOLEAN : BleRenderEnd(t, ok)
  \/ \E t \in TaskIds : BleAfter(t)
  \/ \E t \in TaskIds : MultiResolve(t)
  \/ \E t \in TaskIds, ok \in BOOLEAN : SingleConnect(t, ok)
  \/ \E t \in TaskIds : SingleRenderBegin(t)
  \/ \E t \in TaskIds, ok \in BOOLEAN : SingleRenderEnd(t, ok)
  \/ \E t \in TaskIds : SingleDisconnect(t)
  \/ \E t \in TaskIds, ok \in BOOLEAN : LegacyConnect(t, ok)
  \/ \E t \in TaskIds : LegacyRenderBegin(t)
  \/ \E t \in TaskIds, ok \in BOOLEAN : LegacyRenderEnd(t, ok)
  \/ \E t \in TaskIds : LegacyDone(t)
  \/ \E i \in TaskIds : JobReturns(i)
  \/ ConnectReturns

Spec == Init /\ [][Next]_vars

\* C4: every print trigger goes through the one chain, so that no two
\* renderReceipt executions overlap.
C4_NoOverlappingRenders == Cardinality(rendering) <= 1

\* C5: a target copy whose first attempt fails (connect or render) gets exactly
\* one reconnect-and-retry: no copy is rendered more than twice, and a failed
\* first attempt is never given up on without the reconnect.
C5_OneRetryPerCopy ==
  \A t \in TaskIds :
    /\ tasks[t].rend <= 2
    /\ tasks[t].conn <= 2
    /\ (tasks[t].pc = "caught" /\ tasks[t].firstFailed) => tasks[t].conn = 2

\* C6: a target that fails both attempts is abandoned while the targets after it
\* are still attempted, and handleMultiLanPrint does not throw: after the second
\* attempt of a copy no exception reaches the caller from inside the loop over
\* the targets (ti is the target the loop stands at, 0 outside the loop).
C6_LaterTargetsAttempted ==
  \A t \in TaskIds :
    (tasks[t].pc = "caught" /\ tasks[t].conn = 2) => tasks[t].ti = 0

\* C7: every transport session that a print job connects is disconnected by
\* the time the job ends, on the success, retry and failure paths.
C7_SessionsClosedAtJobEnd ==
  \A i \in 1..MaxJobs : tasks[i].pc \in {"end", "caught"} => LeftOpen(i) = {}

(***************************************************************************)
(* Outcomes of routing.                                                    *)
(***************************************************************************)
\* The task stands inside the loop over the targets of handleMultiLanPrint.
InTargetLoop(t) ==
  tasks[t].pc \in {"ps_connect", "ps_render", "ps_rendering", "ps_reconnect",
                   "ps_render2", "ps_rendering2", "ps_disconnect"}

\* The document has no hint token, neither in the setting block nor in a kitchen block.
NoHintAnywhere(json) ==
  /\ Len(json.cashierIps) = 0
  /\ \A k \in 1..Len(json.kitchen) : Len(json.kitchen[k].ips) = 0

\* Some hint token of the document names a stored profile.
SomeHintResolves(json, list) ==
  LET hints == {json.cashierIps[i] : i \in 1..Len(json.cashierIps)} \cup
               UNION {{json.kitchen[k].ips[i] : i \in 1..Len(json.kitchen[k].ips)} :
                        k \in 1..Len(json.kitchen)}
  IN \E h \in hints : \E n \in 1..Len(list) :
       /\ list[n].host = h[1]
       /\ Len(h) = 2 => list[n].port = NumberOf(h[2])

\* The tasks that exist: the connectNetwork handler once pressed and the queued jobs.
Started == {t \in TaskIds : tasks[t].pc # "idle"}

\* C11: a document without any hint makes routing return handled=false
\* (matched=false) without a connect or a print call, and routing returns
\* handled=false for no other document.
C11_NoHintNotHandled ==
  \A t \in Started :
    LET json == RoutedJson(t) IN
      /\ NoHintAnywhere(json) =>
            /\ ~InTargetLoop(t)
            /\ tasks[t].log = <<>>
            /\ tasks[t].res \in {"none", "unhandled"}
      /\ tasks[t].res = "unhandled" => NoHintAnywhere(json)

\* Routing has returned handled=false for a document without hints.
C11_Witness ==
  \E t \in Started :
    /\ tasks[t].res = "unhandled"
    /\ Len(RoutedJson(t).kitchen) > 0
    /\ NoHintAnywhere(RoutedJson(t))

\* C12: a document with a hint of which none resolves to a stored profile makes
\* routing return handled=true, matched=false without a connect or a print call;
\* matched=true is returned only when a target was resolved and printed.
C12_NoTargetNotMatched ==
  \A t \in Started :
    LET json == RoutedJson(t) IN
      /\ (~NoHintAnywhere(json) /\ ~SomeHintResolves(json, savedPrinters)) =>
            /\ ~InTargetLoop(t)
            /\ tasks[t].log = <<>>
            /\ tasks[t].res \in {"none", "unmatched"}
      /\ tasks[t].res = "matched" =>
            /\ SomeHintResolves(json, savedPrinters)
            /\ Len(tasks[t].log) >= 1

\* Routing has returned handled=true, matched=false for a document whose hint
\* names an unknown host.
C12_Witness ==
  \E t \in Started :
    /\ tasks[t].res = "unmatched"
    /\ ~NoHintAnywhere(RoutedJson(t))
    /\ ~SomeHintResolves(RoutedJson(t), savedPrinters)

\* C13: after routing returned handled=true, matched=false the caller sends
\* nothing of the job to a printer: it does not fall back to the legacy print.
C13_UnmatchedIsTerminal ==
  \A t \in TaskIds :
    tasks[t].res = "unmatched" =>
      tasks[t].pc \notin {"leg_connect", "leg_render", "leg_rendering", "leg_done"}

(***************************************************************************)
(* Order of execution of the targets.                                      *)
(***************************************************************************)
\* The first cashier hint of the document that resolves to the profile of target tg.
FirstCashierHint(tg, json, list) ==
  CHOOSE a \in 1..Len(json.cashierIps) :
    /\ findSavedByIpToken(json.cashierIps[a], list) = tg.profile
    /\ \A b \in 1..(a - 1) : findSavedByIpToken(json.cashierIps[b], list) # tg.profile

\* Cashier targets come first and in hint order, kitchen targets after them in
\* kitchen-block order.
OrderedTargets(tg, json, list) ==
  \A i \in 1..Len(tg) : \A j \in 1..Len(tg) :
    i < j =>
      /\ ~(tg[i].type = "kitchen" /\ tg[j].type = "cashier")
      /\ (tg[i].type = "kitchen" /\ tg[j].type = "kitchen") => tg[i].blockIdx <= tg[j].blockIdx
      /\ (tg[i].type = "cashier" /\ tg[j].type = "cashier") =>
           FirstCashierHint(tg[i], json, list) < FirstCashierHint(tg[j], json, list)

\* C14: the targets of one routing resolution are executed one after another in
\* the order of hint matching, cashier targets first in hint order, then kitchen
\* targets in block order: the completed cycles are those of the targets before
\* the current one, in that order, and of the current one.
C14_TargetsInOrder ==
  \A t \in Started :
    InTargetLoop(t) =>
      LET tg == tasks[t].targets
          lg == tasks[t].log
      IN /\ OrderedTargets(tg, RoutedJson(t), savedPrinters)
         /\ \A k \in 1..Len(lg) : lg[k] <= tasks[t].ti
         /\ \A k \in 1..Len(lg) : \A l \in 1..Len(lg) : k < l => lg[k] <= lg[l]
         /\ \A n \in 1..(tasks[t].ti - 1) : \E k \in 1..Len(lg) : lg[k] = n

\* Two cashier targets in hint order have been printed and the kitchen target
\* is being printed.
C14_Witness ==
  \E t \in Started :
    /\ tasks[t].pc = "ps_rendering"
    /\ tasks[t].ti = 3
    /\ tasks[t].targets[1].type = "cashier"
    /\ tasks[t].targets[1].profile.port = 9101
    /\ tasks[t].targets[2].type = "cashier"
    /\ tasks[t].targets[3].type = "kitchen"
    /\ tasks[t].log = <<1, 1, 2>>

\* The number of cycles the claim expects for a profile.
ExpectedCopies(profile) == IF profile.copies >= 1 THEN profile.copies ELSE 1

\* The number of completed cycles of target n.
CyclesOf(lg, n) == Cardinality({k \in 1..Len(lg) : lg[k] = n})

\* C15: a target whose profile has copies = c gets exactly c connect -> render ->
\* disconnect cycles, one after another, and a missing or non-positive copies
\* value counts as 1: every target before the current one has completed that
\* many cycles, the current one has completed ci of them, and a cycle without a
\* failed attempt is one connect and one render.
C15_CopiesCycles ==
  \A t \in Started :
    InTargetLoop(t) =>
      LET tg == tasks[t].targets
          lg == tasks[t].log
          ti == tasks[t].ti
      IN /\ \A n \in 1..(ti - 1) : CyclesOf(lg, n) = ExpectedCopies(tg[n].profile)
         /\ CyclesOf(lg, ti) = tasks[t].ci
         /\ tasks[t].ci < ExpectedCopies(tg[ti].profile)
         /\ (tasks[t].pc = "ps_disconnect" /\ ~tasks[t].firstFailed) =>
              (tasks[t].conn = 1 /\ tasks[t].rend = 1)

\* A target with copies = 2 has been printed twice and one without copies once.
C15_Witness ==
  \E t \in Started :
    /\ InTargetLoop(t)
    /\ tasks[t].ti = 3
    /\ tasks[t].targets[1].profile.copies = 2
    /\ tasks[t].targets[2].profile.copies = 0
    /\ tasks[t].log = <<1, 1, 2>>
    /\ tasks[t].pc = "ps_connect"

(***************************************************************************)
(* The network connection under the renders, and the two kitchen paths.    *)
(***************************************************************************)
\* The task is inside a renderReceipt that writes on the network transport.
RendersOnLan(t) == tasks[t].pc \in {"ps_rendering", "ps_rendering2", "leg_rendering"}

\* C28: every write on the network transport happens while its SDK connection
\* is open: a render on the network transport runs on a connection that no cut
\* or disconnect has closed since the connect, also for the second and later
\* tickets of the legacy loops.
C28_WritesOnOpenConnection ==
  \A t \in Started : RendersOnLan(t) => lanOpen

\* The task is on the legacy single-host path.
OnLegacyPath(t) == tasks[t].pc \in {"leg_connect", "leg_render", "leg_rendering", "leg_done"}

\* C30: a job whose routing returned handled = true, matched = true does not
\* also execute the legacy single-host path.
C30_OnePathPerJob ==
  \A t \in Started : tasks[t].res = "matched" => ~OnLegacyPath(t)

(***************************************************************************)
(* SpecCut: the cut step.  cutWithFallback and renderReceipt of            *)
(* src/services/image.ts, renderReceipt, renderKitchenTicket and           *)
(* autoCutSimple of src/services/receiptRenderer.ts, and the cut of the    *)
(* transports, run on every transport of CutTransports.                    *)
(***************************************************************************)
\* ESC/POS byte sequences of the sources.
ESC_d_3 == <<27, 100, 3>>
ESC_d_5 == <<27, 100, 5>>
LF2 == <<10, 10>>
LF3 == <<10, 10, 10>>
LF5 == <<10, 10, 10, 10, 10>>
GS_V_0 == <<29, 86, 0>>
GS_V_1 == <<29, 86, 1>>
GS_V_A == <<29, 86, 65, 0>>
GS_V_B == <<29, 86, 66, 3>>
ESC_i == <<27, 105>>
ESC_m == <<27, 109>>

\* One call made during a cut or a render, and whether it succeeded.
Call(op, bytes, mode, ok) == [op |-> op, bytes |-> bytes, mode |-> mode, ok |-> ok]

\* An awaited call that resolved, one that rejected, one that resolved to false.
Resolved(calls) == [calls |-> calls, threw |-> FALSE, ok |-> TRUE]
Rejected(calls) == [calls |-> calls, threw |-> TRUE, ok |-> FALSE]
ReturnedFalse(calls) == [calls |-> calls, threw |-> FALSE, ok |-> FALSE]

\* await r; await s.
Then(r, s) ==
  IF r.threw THEN r ELSE [calls |-> r.calls \o s.calls, threw |-> s.threw, ok |-> s.ok]

\* try { await r } catch {}.
Caught(r) == [r EXCEPT !.threw = FALSE]

\* types.ts 26-42: a PrinterTransport.  kind "stub" is any implementation of the
\* interface: cut and printRaw are optional, and every call may reject.  The
\* other kinds are the transports of the repository over an SDK whose calls may
\* be missing or reject: "net0" is NetPrinterService of part_000, "net" the one
\* of src/transports/netPrinter.ts, "ble" is BLEPrinterService.
\*   cut       stub: cut();  net0: NetPrinter.cutPaper  ("absent" | "ok" | "fail")
\*   hasRaw    stub: printRaw is defined;  others: the SDK has printRawData
\*   rawFails  the byte sequences whose raw send rejects
\*   altFails  net: the sequences whose TCP send rejects;  ble: over RFCOMM
\*   text      printText resolves
StubTransports ==
  [kind : {"stub"}, cut : {"absent", "ok", "fail"}, hasRaw : BOOLEAN,
   rawFails : SUBSET {ESC_i, ESC_m, GS_V_0, GS_V_1, GS_V_B}, altFails : {{}},
   text : BOOLEAN]

Net0Transports ==
  [kind : {"net0"}, cut : {"absent", "ok", "fail"}, hasRaw : BOOLEAN,
   rawFails : SUBSET {GS_V_0, GS_V_1}, altFails : {{}}, text : BOOLEAN]

NetTransports ==
  [kind : {"net"}, cut : {"absent"}, hasRaw : BOOLEAN,
   rawFails : SUBSET {GS_V_0, GS_V_1}, altFails : SUBSET {LF5, GS_V_0, GS_V_1},
   text : BOOLEAN]

BleTransports ==
  [kind : {"ble"}, cut : {"absent"}, hasRaw : BOOLEAN,
   rawFails : SUBSET {ESC_d_5, GS_V_0, GS_V_1, GS_V_A, GS_V_B, ESC_i, ESC_m},
   altFails : SUBSET {GS_V_1, GS_V_A, GS_V_B, ESC_m}, text : BOOLEAN]

CutTransports ==
  {tr \in StubTransports \cup Net0Transports \cup NetTransports \cup BleTransports :
     ~tr.hasRaw => tr.rawFails = {}}

\* typeof transport.cut === 'function' / p.cut: the classes define cut.
HasCut(tr) == IF tr.kind = "stub" THEN tr.cut # "absent" ELSE TRUE

\* p.printRaw: the classes define printRaw.
HasRaw(tr) == IF tr.kind = "stub" THEN tr.hasRaw ELSE TRUE

\* printRawData of the SDK: base64 first, then number[] (part_000 53-65,
\* netPrinter.ts 70-82, blePrinter.ts 75-83).
printRawData(tr, bytes) ==
  IF bytes \notin tr.rawFails
    THEN <<Call("printRawData", bytes, "base64", TRUE)>>
    ELSE <<Call("printRawData", bytes, "base64", FALSE),
           Call("printRawData", bytes, "number[]", FALSE)>>

\* NetPrinterService.printRaw (part_000 47-67, netPrinter.ts 64-83): never rejects.
NetPrintRaw(tr, bytes) ==
  Resolved(<<Call("printRaw", bytes, "", TRUE)>>
           \o IF tr.hasRaw THEN printRawData(tr, bytes) ELSE <<>>)

\* BLEPrinterService.tryBleRaw (blePrinter.ts 71-84): true when the bytes were sent.
tryBleRaw(tr, bytes) ==
  IF ~tr.hasRaw THEN ReturnedFalse(<<Call("tryBleRaw", bytes, "", FALSE)>>)
  ELSE IF bytes \notin tr.rawFails
    THEN Resolved(<<Call("tryBleRaw", bytes, "", TRUE)>> \o printRawData(tr, bytes))
    ELSE ReturnedFalse(<<Call("tryBleRaw", bytes, "", FALSE)>> \o printRawData(tr, bytes))

\* BLEPrinterService.sendClassicOnce (blePrinter.ts 87-112): true when written.
sendClassicOnce(tr, bytes) ==
  IF bytes \notin tr.altFails
    THEN Resolved(<<Call("sendClassicOnce", bytes, "", TRUE)>>)
    ELSE ReturnedFalse(<<Call("sendClassicOnce", bytes, "", FALSE)>>)

\* NetPrinterService.sendTcpBytes (netPrinter.ts 86-118).
sendTcpBytes(tr, bytes) ==
  IF bytes \notin tr.altFails
    THEN Resolved(<<Call("sendTcpBytes", bytes, "", TRUE)>>)
    ELSE Rejected(<<Call("sendTcpBytes", bytes, "", FALSE)>>)

\* transport.printRaw(bytes).
PrintRaw(tr, bytes) ==
  CASE tr.kind = "stub" ->
         IF bytes \notin tr.rawFails
           THEN Resolved(<<Call("printRaw", bytes, "", TRUE)>>)
           ELSE Rejected(<<Call("printRaw", bytes, "", FALSE)>>)
    [] tr.kind = "ble" -> Caught(tryBleRaw(tr, bytes))
    [] OTHER -> NetPrintRaw(tr, bytes)

\* transport.printText(text): rejects when the SDK call does (part_000 31-34,
\* netPrinter.ts 44-50, blePrinter.ts 50-56).
PrintText(tr, bytes) ==
  IF tr.text THEN Resolved(<<Call("printText", bytes, "", TRUE)>>)
             ELSE Rejected(<<Call("printText", bytes, "", FALSE)>>)

\* One send of a loop over cut opcodes, on the channel the loop uses.
Send(tr, chan, bytes) ==
  CASE chan = "tryBleRaw" -> tryBleRaw(tr, bytes)
    [] chan = "sendClassicOnce" -> sendClassicOnce(tr, bytes)
    [] OTHER -> PrintRaw(tr, bytes)

\* A variant of the loop that sends every sequence of the list.
RECURSIVE SendAll(_, _, _, _)
SendAll(tr, chan, seqs, k) ==
  IF k > Len(seqs) THEN ReturnedFalse(<<>>)
  ELSE LET r == Send(tr, chan, seqs[k])
           rest == SendAll(tr, chan, seqs, k + 1)
       IN [calls |-> r.calls \o rest.calls, threw |-> FALSE,
           ok |-> (~r.threw /\ r.ok) \/ rest.ok]

\* for (const seq of tries) { try { send(seq); return } catch {} }  (image.ts
\* 172-181, part_000 89-91) and  for (...) { if (await send(seq)) return }
\* (blePrinter.ts 144-152, 156-162): ok when a send succeeded.
RECURSIVE SendUntilSent(_, _, _, _)
SendUntilSent(tr, chan, seqs, k) ==
  IF k > Len(seqs) THEN ReturnedFalse(<<>>)
  ELSE LET r == Send(tr, chan, seqs[k])
       IN IF ~r.threw /\ r.ok
            THEN Resolved(r.calls)
            ELSE LET rest == SendUntilSent(tr, chan, seqs, k + 1)
                 IN [rest EXCEPT !.calls = r.calls \o @]

\* part_000 83-88: the raw fallbacks of NetPrinterService.cut.
Net0Tries(mode) ==
  <<IF mode = "full" THEN GS_V_0 ELSE GS_V_1, GS_V_B,
    IF mode = "full" THEN ESC_i ELSE ESC_m>>

\* part_000 72-93: NetPrinterService.cut(mode = 'partial').
NetCut0(tr, mode) ==
  LET feed == <<Call("printRaw", ESC_d_3, "", TRUE)>>
                \o (IF tr.hasRaw THEN printRawData(tr, ESC_d_3) ELSE <<>>)
                \o <<Call("NetPrinter.printText", LF3, "", tr.text)>>
      native == IF tr.cut = "absent" THEN <<>>
                ELSE <<Call("cutPaper", <<>>, "", tr.cut = "ok")>>
  IN IF tr.cut = "ok"
       THEN Resolved(feed \o native)
       ELSE Resolved(feed \o native
                     \o SendUntilSent(tr, "printRaw", Net0Tries(mode), 1).calls)

\* A variant of NetCut that also sends the opcode through the SDK when the
\* direct socket took it.
NetCutAlsoRaw(tr, mode) ==
  LET cmd == IF mode = "partial" THEN GS_V_1 ELSE GS_V_0
  IN Resolved(<<Call("closeConn", <<>>, "", TRUE)>>
              \o sendTcpBytes(tr, LF5).calls
              \o sendTcpBytes(tr, cmd).calls
              \o NetPrintRaw(tr, cmd).calls)

\* netPrinter.ts 126-158: NetPrinterService.cut(mode = 'full').
NetCut(tr, mode) ==
  LET cmd == IF mode = "partial" THEN GS_V_1 ELSE GS_V_0
      tcp == sendTcpBytes(tr, cmd)
  IN Resolved(<<Call("closeConn", <<>>, "", TRUE)>>
              \o sendTcpBytes(tr, LF5).calls
              \o tcp.calls
              \o IF tcp.threw THEN NetPrintRaw(tr, cmd).calls ELSE <<>>)

\* blePrinter.ts 136-142: the cutter sequences of BLEPrinterService.cut.
BleSequences(mode) ==
  <<IF mode = "full" THEN GS_V_0 ELSE GS_V_1, GS_V_A, GS_V_B,
    IF mode = "full" THEN ESC_i ELSE ESC_m>>

\* blePrinter.ts 125-165: BLEPrinterService.cut(mode = 'partial').
BleCut(tr, mode) ==
  LET fed == tryBleRaw(tr, ESC_d_5)
      feed == fed.calls \o IF fed.ok THEN <<>> ELSE <<Call("BLEPrinter.printText", LF5, "", tr.text)>>
      overBle == SendUntilSent(tr, "tryBleRaw", BleSequences(mode), 1)
  IN IF overBle.ok
       THEN Resolved(feed \o overBle.calls)
       ELSE Resolved(feed \o overBle.calls
                     \o SendUntilSent(tr, "sendClassicOnce", BleSequences(mode), 1).calls)

\* The mode a cut takes when it is called without one.
DefaultMode(tr) == IF tr.kind = "net" THEN "full" ELSE "partial"

\* transport.cut(mode); mode "" is a call without argument.
Cut(tr, mode) ==
  LET m == IF mode = "" THEN DefaultMode(tr) ELSE mode IN
  CASE tr.kind = "stub" ->
         IF tr.cut = "ok" THEN Resolved(<<Call("cut", <<>>, mode, TRUE)>>)
                          ELSE Rejected(<<Call("cut", <<>>, mode, FALSE)>>)
    [] tr.kind = "net0" -> Then(Resolved(<<Call("cut", <<>>, mode, TRUE)>>), NetCut0(tr, m))
    [] tr.kind = "net" -> Then(Resolved(<<Call("cut", <<>>, mode, TRUE)>>), NetCut(tr, m))
    [] OTHER -> Then(Resolved(<<Call("cut", <<>>, mode, TRUE)>>), BleCut(tr, m))

\* image.ts 159-165: the raw sequences of cutWithFallback.
CutTries == <<ESC_i, ESC_m, GS_V_0, GS_V_1, GS_V_B>>

\* await transport.cut?.(), the call that cutWithFallback replaced (image.ts 394-396).
cutOptional(p) == IF HasCut(p) THEN Cut(p, "") ELSE Resolved(<<>>)

\* image.ts 138-184: cutWithFallback.
cutWithFallback(p) ==
  LET native == IF HasCut(p) THEN Cut(p, "") ELSE Resolved(<<>>)
  IN IF HasCut(p) /\ ~native.threw THEN native
     ELSE IF ~HasRaw(p) THEN Resolved(native.calls)
     ELSE Resolved(native.calls \o SendUntilSent(p, "printRaw", CutTries, 1).calls)

\* receiptRenderer.ts 127-134 (540-556, 913-929): autoCutSimple.
autoCutSimple(p) ==
  IF HasRaw(p) THEN Then(PrintRaw(p, LF5), PrintRaw(p, GS_V_0)) ELSE Resolved(<<>>)

\* The prints of a render before its end: saneState and the blocks of the
\* receipt (image.ts 207-388, receiptRenderer.ts 155-443, 1031-1264) or of the
\* kitchen ticket (receiptRenderer.ts 971-1018).  They reject when printText does.
Content(tr, what) ==
  IF tr.text THEN Resolved(<<Call("content", <<>>, what, TRUE)>>)
             ELSE Rejected(<<Call("content", <<>>, what, FALSE)>>)

\* image.ts 390-399: the end of renderReceipt of image.ts.
RenderReceiptImage(tr) ==
  Then(Content(tr, "receipt"), Then(PrintText(tr, LF2), cutWithFallback(tr)))

\* receiptRenderer.ts 445-448 (766-772, 1020-1026, 1266-1272): the cut of
\* renderReceipt and of renderKitchenTicket.
RendererCut(tr) == IF HasCut(tr) THEN Cut(tr, "full") ELSE autoCutSimple(tr)

\* receiptRenderer.ts 971-1028: renderKitchenTicket.
renderKitchenTicket(tr) == Then(Content(tr, "kitchen"), RendererCut(tr))

\* receiptRenderer.ts 1031-1275 (155-451): renderReceipt; a payload of one
\* kitchen_print block is rendered by renderKitchenTicket (1044-1050).
renderReceipt(tr, kitchenOnly) ==
  IF kitchenOnly THEN renderKitchenTicket(tr)
                 ELSE Then(Content(tr, "receipt"), RendererCut(tr))

\* DrawerContent.tsx 1312-1323: the cashier receipt over Bluetooth in the
\* PRINT_JSON listener: render and cut on the session, and on a throw the same
\* on a second session to the same printer.
PrintCashierBle(session) ==
  LET attempt == Then(renderReceipt(session, FALSE), Caught(Cut(session, "full")))
  IN IF ~attempt.threw THEN attempt
     ELSE [calls |-> attempt.calls \o attempt.calls, threw |-> attempt.threw,
           ok |-> attempt.ok]

CutInit ==
  /\ QueueInit
  /\ SideIdle
  /\ RouteIdle
  /\ MatchIdle
  /\ AppIdle
  /\ savedPrinters = <<>>
  /\ cTransport \in CutTransports
  /\ cPhase = "input"
  /\ cFn = NoFn
  /\ cOut = NoOut

notCut == <<queueVars, savedPrinters, routeVars, matchVars, appVars, cTransport, sideVars>>

Ran(name, mode, out) ==
  /\ cPhase = "input"
  /\ cPhase' = "done"
  /\ cFn' = [name |-> name, mode |-> mode]
  /\ cOut' = out
  /\ UNCHANGED notCut

RunCutWithFallback == Ran("cutWithFallback", "", cutWithFallback(cTransport))

RunTransportCut ==
  \E mode \in {"", "full", "partial"} :
    /\ cTransport.kind # "stub"
    /\ Ran("cut", mode, Cut(cTransport, mode))

RunRenderReceiptImage == Ran("image.renderReceipt", "", RenderReceiptImage(cTransport))

RunRenderReceipt ==
  \E kitchenOnly \in BOOLEAN :
    Ran("renderReceipt", IF kitchenOnly THEN "kitchen" ELSE "receipt",
        renderReceipt(cTransport, kitchenOnly))

RunPrintCashierBle ==
  /\ cTransport.kind = "ble"
  /\ Ran("printCashierBle", "", PrintCashierBle(cTransport))

CutNext ==
  \/ RunPrintCashierBle
  \/ RunCutWithFallback
  \/ RunTransportCut
  \/ RunRenderReceiptImage
  \/ RunRenderReceipt

SpecCut == CutInit /\ [][CutNext]_vars

CutDone(name) == cPhase = "done" /\ cFn.name = name

\* C16: cutWithFallback never raises, whatever the transport has of a native cut
\* (present, absent, failing) and of raw emission (present, absent, failing);
\* when every step fails it returns normally.
C16_CutFallbackNeverThrows ==
  CutDone("cutWithFallback") => ~cOut.threw

\* The native cut and all five raw sends failed, and cutWithFallback returned.
C16_Witness ==
  /\ CutDone("cutWithFallback")
  /\ cTransport.kind = "stub"
  /\ cTransport.cut = "fail"
  /\ cTransport.hasRaw
  /\ Len(cOut.calls) = 6
  /\ \A k \in 1..6 : ~cOut.calls[k].ok
  /\ ~cOut.threw

\* The sequences that feed paper before a cut.
CutFeeds == {ESC_d_3, ESC_d_5, LF5}

\* The cut attempts among the calls of a cut function: its native cut and its
\* raw sends of cut opcodes.
CutAttempts(calls, nativeOp, rawOps) ==
  LET IsAttempt(c) == c.op = nativeOp \/ (c.op \in rawOps /\ c.bytes \notin CutFeeds)
  IN SelectSeq(calls, IsAttempt)

\* The native cut is the first attempt when there is one, no attempt follows an
\* attempt that succeeded, and when the last attempt failed while raw sends are
\* possible, all the `total` raw sends have been made.
FallbackDiscipline(a, nativeOp, hasNative, hasRaw, total) ==
  /\ hasNative => (a # <<>> /\ a[1].op = nativeOp)
  /\ \A i \in 1..Len(a) : a[i].op = nativeOp => (hasNative /\ i = 1)
  /\ \A i \in 1..Len(a) : a[i].op # nativeOp => hasRaw
  /\ \A i \in 1..(Len(a) - 1) : ~a[i].ok
  /\ (hasRaw /\ (a = <<>> \/ ~a[Len(a)].ok)) =>
       Len(a) = total + (IF hasNative THEN 1 ELSE 0)

OpcodeRank(bytes) ==
  IF bytes \in {GS_V_0, GS_V_1} THEN 1
  ELSE IF bytes = GS_V_B THEN 2
  ELSE IF bytes \in {ESC_i, ESC_m} THEN 3
  ELSE 0

\* The raw cut opcodes sent on one channel, in order.
RawCutSends(calls, chan) ==
  LET IsSend(c) == c.op = chan /\ OpcodeRank(c.bytes) > 0
  IN SelectSeq(calls, IsSend)

InClaimedOrder(r) ==
  /\ r # <<>> => OpcodeRank(r[1].bytes) = 1
  /\ \A i, j \in 1..Len(r) : i < j => OpcodeRank(r[i].bytes) <= OpcodeRank(r[j].bytes)

\* C18: the raw cut opcodes are tried in the order GS V 0 / GS V 1, then
\* GS V 'B' n, then ESC i / ESC m; for cutWithFallback, NetPrinterService.cut
\* and BLEPrinterService.cut.
C18_RawOpcodeOrder ==
  /\ (CutDone("cutWithFallback") /\ cTransport.kind = "stub") =>
       InClaimedOrder(RawCutSends(cOut.calls, "printRaw"))
  /\ (CutDone("cut") /\ cTransport.kind = "net0") =>
       InClaimedOrder(RawCutSends(cOut.calls, "printRaw"))
  /\ (CutDone("cut") /\ cTransport.kind = "ble") =>
       /\ InClaimedOrder(RawCutSends(cOut.calls, "tryBleRaw"))
       /\ InClaimedOrder(RawCutSends(cOut.calls, "sendClassicOnce"))

\* A render that emitted all its content.
ContentEmitted ==
  /\ cPhase = "done"
  /\ cFn.name \in {"image.renderReceipt", "renderReceipt"}
  /\ cOut.calls # <<>>
  /\ cOut.calls[1].op = "content"
  /\ cOut.calls[1].ok

\* C19: a failure of the cut step is absorbed: a render whose content was
\* emitted resolves, whether or not the transport's cut or the raw cut sends
\* failed.
C19_CutFailureAbsorbed ==
  ContentEmitted => ~cOut.threw

\* C20: a render that emitted all its content ends with two blank-line feeds
\* and then the cut step: the call after the content is printText of two line
\* feeds, the cut step follows it whenever the transport can cut, and the render
\* prints nothing after it; on the receipt path and on the kitchen-only path.
C20_FeedsThenCut ==
  (ContentEmitted /\ ~cOut.threw) =>
    /\ Len(cOut.calls) >= 2
    /\ cOut.calls[2].op = "printText"
    /\ cOut.calls[2].bytes = LF2
    /\ HasCut(cTransport) => (Len(cOut.calls) >= 3 /\ cOut.calls[3].op = "cut")
    /\ \A k \in 3..Len(cOut.calls) : cOut.calls[k].op \notin {"printText", "content"}

(* The mode of a cut called without one. *)
PartialOpcodes == {GS_V_1, ESC_m}

\* The cut function started with the transport's own cut, called with `mode`.
NativeCutCalled(mode) ==
  /\ cPhase = "done"
  /\ cFn.name \in {"cut", "cutWithFallback"}
  /\ cTransport.kind # "stub"
  /\ cOut.calls # <<>>
  /\ cOut.calls[1].op = "cut"
  /\ cOut.calls[1].mode = mode

\* C25: a cut requested without a mode is a full cut: when the transport's cut
\* is called with 'full' or with no mode, by cutWithFallback or directly, no
\* partial-cut opcode is sent.
C25_DefaultCutIsFull ==
  (NativeCutCalled("") \/ NativeCutCalled("full")) =>
    \A i \in 1..Len(cOut.calls) : cOut.calls[i].bytes \notin PartialOpcodes

(* The cuts of one receipt. *)
CallsOf(calls, op) == SelectSeq(calls, LAMBDA c : c.op = op /\ c.ok)

\* C29: each rendered receipt causes one cut sequence: a print path calls the
\* transport's cut at most once for each receipt whose content it rendered.
C29_OneCutPerReceipt ==
  (cPhase = "done" /\ cFn.name \in {"printCashierBle", "renderReceipt", "image.renderReceipt"}) =>
    Len(CallsOf(cOut.calls, "cut")) <= Len(CallsOf(cOut.calls, "content"))

(***************************************************************************)
(* SpecBle: the Bluetooth sessions of the app: the print jobs together     *)
(* with the Connect and Disconnect buttons and the automatic reconnect.    *)
(***************************************************************************)
\* Lines 882-898: connectBluetooth; the button is shown while not bleConnected
\* (1472, 1494-1499) and enabled with a device.  ok is ble.connect resolving.
ConnectBluetooth(ok) ==
  /\ ~bleConnected
  /\ cfg.bleMac
  /\ bleOpen' = (bleOpen \/ ok)
  /\ bleConnected' = ok
  /\ UNCHANGED <<queueVars, fixedVars, lanConnected, tasks, lanOpen, rendering>>

\* Lines 1474-1481: the Disconnect button, shown while bleConnected.
DisconnectBluetooth ==
  /\ bleConnected
  /\ bleOpen' = FALSE
  /\ bleConnected' = FALSE
  /\ UNCHANGED <<queueVars, fixedVars, lanConnected, tasks, lanOpen, rendering>>

\* Lines 1241-1250 and 1275-1284: the boot effect and the foreground effect
\* reconnect to the saved address, once; perm is ensureBtPerms().
AutoReconnect(perm, ok) ==
  /\ cfg.bleMac
  /\ ~bleConnected
  /\ ~triedBleOnce
  /\ triedBleOnce' = TRUE
  /\ bleOpen' = (bleOpen \/ (perm /\ ok))
  /\ bleConnected' = (perm /\ ok)
  /\ UNCHANGED <<queueVars, savedPrinters, routeVars, matchVars, cfg, cutVars,
                 layoutVars, renderVars, prefsVars, lanConnected, tasks, lanOpen,
                 rendering>>

\* The app after mount, with a saved Bluetooth address and no network printer.
BleInit ==
  /\ QueueInit
  /\ RouteIdle
  /\ MatchIdle
  /\ CutIdle
  /\ SideIdle
  /\ cfg = [enableMultiNet |-> FALSE, host |-> "", bleMac |-> TRUE, receiptJson |-> FullDoc]
  /\ savedPrinters = <<>>
  /\ bleConnected = FALSE
  /\ lanConnected = FALSE
  /\ lanOpen = FALSE
  /\ bleOpen = FALSE
  /\ tasks = [t \in 0..MaxJobs |-> IdleTask]
  /\ rendering = {}

BleNext ==
  \/ \E ok \in BOOLEAN : ConnectBluetooth(ok)
  \/ DisconnectBluetooth
  \/ \E perm, ok \in BOOLEAN : AutoReconnect(perm, ok)
  \/ PressPrintBle
  \/ PrintJsonEvent
  \/ StartJob
  \/ ChainCatch
  \/ ChainThen
  \/ \E t \in TaskIds : BleBegin(t)
  \/ \E t \in TaskIds : EventBegin(t)
  \/ \E t \in TaskIds : EventKitchen(t)
  \/ \E t \in TaskIds, ok \in BOOLEAN : BleConnect(t, ok)
  \/ \E t \in TaskIds : BleRenderBegin(t)
  \/ \E t \in TaskIds, ok \in BOOLEAN : BleRenderEnd(t, ok)
  \/ \E t \in TaskIds : BleAfter(t)
  \/ \E i \in TaskIds : JobReturns(i)

SpecBle == BleInit /\ [][BleNext]_vars

\* A step of connectBluetooth or of the automatic reconnect that connected.
ConnectedOutsideJob == ~bleConnected /\ bleConnected' /\ bleOpen' /\ UNCHANGED tasks

\* C24: at most one Bluetooth session is open: a manual or automatic connect
\* opens its session only when no session to the printer is open (the connects
\* of the print jobs close the connection first, lines 908, 925, 1308, 1317).
C24_ConnectAfterClose == [][ConnectedOutsideJob => ~bleOpen]_vars

(***************************************************************************)
(* SpecLayout: the layout helpers of the renderer.                         *)
(*                                                                         *)
(* A text is its words, text.split(' '): words[i] is the length of word i. *)
(* A piece [w, from, to] is the characters from..to-1 of word w; a line is *)
(* a sequence of pieces, joined by single spaces.  A row is a sequence of  *)
(* characters: "L" of the label, "V" of the value, "I" of the item name,   *)
(* "Q", "P", "A" of the quantity, price and amount, and " ".               *)
(***************************************************************************)
MaxWords == 3

MinWidth == 24
MaxWidth == 64

AMOUNT_GAP == 2
AMOUNT_GAP0 == 1

Max2(a, b) == IF a >= b THEN a ELSE b
Min2(a, b) == IF a <= b THEN a ELSE b

Piece(w, from, to) == [w |-> w, from |-> from, to |-> to]

RECURSIVE PiecesLen(_)
PiecesLen(line) ==
  IF line = <<>> THEN 0 ELSE (Head(line).to - Head(line).from) + PiecesLen(Tail(line))

\* line.length, for the pieces of a line joined by ' '.
LineLen(line) == IF line = <<>> THEN 0 ELSE PiecesLen(line) + Len(line) - 1

\* receiptRenderer.ts 35: w.slice(i, i + width) for i = 0, width, 2 width, ...
Slices(w, len, width) ==
  [k \in 1..((len + width - 1) \div width) |->
     <<Piece(w, (k - 1) * width, Min2(k * width, len))>>]

\* A wrap that keeps a word longer than the width whole.
RECURSIVE wrapWhole(_, _, _, _, _)
wrapWhole(words, width, i, line, out) ==
  IF i > Len(words)
    THEN IF LineLen(line) > 0 THEN Append(out, line) ELSE out
    ELSE LET w == Piece(i, 0, words[i])
             test == IF LineLen(line) > 0 THEN Append(line, w) ELSE <<w>>
             pushed == IF LineLen(line) > 0 THEN Append(out, line) ELSE out
         IN IF LineLen(test) <= width
              THEN wrapWhole(words, width, i + 1, test, out)
              ELSE wrapWhole(words, width, i + 1, <<w>>, pushed)

\* receiptRenderer.ts 29-42: the loop of wrap from word i on, and its end.
RECURSIVE wrapFrom(_, _, _, _, _)
wrapFrom(words, width, i, line, out) ==
  IF i > Len(words)
    THEN IF LineLen(line) > 0 THEN Append(out, line) ELSE out
    ELSE LET w == Piece(i, 0, words[i])
             test == IF LineLen(line) > 0 THEN Append(line, w) ELSE <<w>>
             pushed == IF LineLen(line) > 0 THEN Append(out, line) ELSE out
         IN IF LineLen(test) <= width
              THEN wrapFrom(words, width, i + 1, test, out)
              ELSE IF words[i] > width
                THEN wrapFrom(words, width, i + 1, <<>>,
                              pushed \o Slices(i, words[i], width))
                ELSE wrapFrom(words, width, i + 1, <<w>>, pushed)

\* receiptRenderer.ts 25-44 (471, 802; image.ts 72): wrap(text, width).
wrap(words, width) == wrapFrom(words, width, 1, <<>>, <<>>)

Chars(c, n) == [i \in 1..n |-> c]

\* receiptRenderer.ts 46-49, 52.
rpad(s, len) == IF Len(s) >= len THEN SubSeq(s, 1, len) ELSE s \o Chars(" ", len - Len(s))
lpad(s, len) ==
  IF Len(s) >= len THEN SubSeq(s, Len(s) - len + 1, Len(s)) ELSE Chars(" ", len - Len(s)) \o s
rAlign(s, width) == lpad(s, width)

\* receiptRenderer.ts 54-62: computeCols of the first revision (gaps = 3).
computeCols0(total) ==
  [item |-> Max2(8, total - (4 + 7 + 8 + 3)), qty |-> 4, price |-> 7, amount |-> 8]

\* receiptRenderer.ts 858-866: computeCols (gaps = 4).
computeCols(total) ==
  [item |-> Max2(8, total - (4 + 7 + 8 + 4)), qty |-> 4, price |-> 7, amount |-> 8]

\* receiptRenderer.ts 68-75: amountAlignedRow of the first revision.
amountAlignedRow0(label, value, width) ==
  LET cols == computeCols0(width)
      leftW == Max2(1, width - cols.amount - AMOUNT_GAP0)
  IN rpad(label, leftW) \o Chars(" ", AMOUNT_GAP0) \o rAlign(value, cols.amount)

\* receiptRenderer.ts 874-881: amountAlignedRow.
amountAlignedRow(label, value, width) ==
  LET cols == computeCols(width)
      leftW == Max2(1, width - cols.amount - AMOUNT_GAP)
  IN rpad(label, leftW) \o Chars(" ", AMOUNT_GAP) \o rAlign(value, cols.amount)

\* receiptRenderer.ts 276-284 and 1143-1147: the row of an item, for the first
\* line of its name, a quantity, a unit price and the line total.
ItemRow(cols, first, qty, price, amount) ==
  rpad(first, cols.item) \o <<" ">> \o rAlign(qty, cols.qty) \o <<" ">>
    \o rAlign(price, cols.price) \o <<" ">> \o rAlign(amount, cols.amount)

\* receiptRenderer.ts 651-698: a row of the item table, from its four fields.
TableRow(cols, item, qty, price, amount) ==
  rpad(item, cols.item) \o <<" ">> \o rpad(qty, cols.qty) \o <<" ">>
    \o price \o <<" ">> \o amount

\* receiptRenderer.ts 645-700: the rows of the item table of one item, without
\* the rule under the header: the header, the row of the item, a row for each
\* further line of its name and for each line of its sub-line.  computeCols
\* of lines 509-517 is the one of lines 54-62.
ItemTable(width, name, subLine) ==
  LET cols == computeCols0(width)
      lines == wrap(name, cols.item)
      first == IF lines = <<>> THEN <<>> ELSE Chars("I", LineLen(lines[1]))
      tails == IF lines = <<>> THEN <<>> ELSE Tail(lines)
      subs == IF subLine = <<>> THEN <<>> ELSE wrap(subLine, cols.item - 2)
      head == TableRow(cols, Chars("H", 4), Chars("H", 3),
                       rpad(Chars("H", 5), cols.price), rpad(Chars("H", 6), cols.amount))
      row == TableRow(cols, first, Chars("Q", 1),
                      rAlign(Chars("P", 4), cols.price), rAlign(Chars("A", 5), cols.amount))
      Blank(item) == TableRow(cols, item, <<>>, rpad(<<>>, cols.price), rpad(<<>>, cols.amount))
  IN <<head, row>>
     \o [k \in 1..Len(tails) |-> Blank(Chars("I", LineLen(tails[k])))]
     \o [k \in 1..Len(subs) |-> Blank(<<" ", " ">> \o Chars("S", LineLen(subs[k])))]

WordLens == {0, 1, 12, MinWidth, MaxWidth, 2 * MaxWidth + 2}

Texts == UNION {[1..n -> WordLens] : n \in 1..MaxWords}

LabelLens == {0, 5, 2 * MaxWidth}
SubLineLens == {0, 12}
ValueLens == {0, 4, 8, 10}

LayoutInputs ==
  [fn : {"wrap"}, width : MinWidth..MaxWidth, words : Texts, label : {0}, value : {0}]
  \cup [fn : {"rows"}, width : MinWidth..MaxWidth, words : {<<>>},
        label : LabelLens, value : ValueLens]
  \cup [fn : {"table"}, width : MinWidth..MaxWidth, words : Texts,
        label : SubLineLens, value : {0}]

LayoutInit ==
  /\ QueueInit
  /\ RouteIdle
  /\ MatchIdle
  /\ AppIdle
  /\ CutIdle
  /\ savedPrinters = <<>>
  /\ triedBleOnce = FALSE
  /\ RenderIdle
  /\ PrefsIdle
  /\ lIn \in LayoutInputs
  /\ lPhase = "input"
  /\ lOut = NoLayoutOut

notLayout ==
  <<queueVars, savedPrinters, routeVars, matchVars, appVars, cutVars, triedBleOnce,
    renderVars, prefsVars, lIn>>

RunWrap ==
  /\ lPhase = "input"
  /\ lIn.fn = "wrap"
  /\ lPhase' = "done"
  /\ lOut' = [NoLayoutOut EXCEPT !.lines = wrap(lIn.words, lIn.width)]
  /\ UNCHANGED notLayout

\* The totals row and an item row of the same width, by one revision of the
\* renderer (rev 0: lines 54-75 and 250-284; rev 1: 858-881 and 1118-1147).
RunRows ==
  /\ lPhase = "input"
  /\ lIn.fn = "rows"
  /\ lPhase' = "done"
  /\ \E rev \in {0, 1} :
       LET label == Chars("L", lIn.label)
           value == Chars("V", lIn.value)
           first == Chars("I", 5)
           qty == Chars("Q", 1)
           price == Chars("P", 4)
           amount == Chars("A", 5)
       IN lOut' = IF rev = 0
            THEN [NoLayoutOut EXCEPT
                    !.row = amountAlignedRow0(label, value, lIn.width),
                    !.itemRow = ItemRow(computeCols0(lIn.width), first, qty, price, amount)]
            ELSE [NoLayoutOut EXCEPT
                    !.row = amountAlignedRow(label, value, lIn.width),
                    !.itemRow = ItemRow(computeCols(lIn.width), first, qty, price, amount)]
  /\ UNCHANGED notLayout

\* The item table of an item named lIn.words, with a sub-line of one word of
\* lIn.label characters, or without one.
RunItemTable ==
  /\ lPhase = "input"
  /\ lIn.fn = "table"
  /\ lPhase' = "done"
  /\ lOut' = [NoLayoutOut EXCEPT
               !.table = ItemTable(lIn.width, lIn.words,
                                   IF lIn.label = 0 THEN <<>> ELSE <<lIn.label>>)]
  /\ UNCHANGED notLayout

LayoutNext ==
  \/ RunWrap
  \/ RunRows
  \/ RunItemTable

SpecLayout == LayoutInit /\ [][LayoutNext]_vars

Wrapped == lPhase = "done" /\ lIn.fn = "wrap"

RECURSIVE Flat(_)
Flat(lines) == IF lines = <<>> THEN <<>> ELSE Head(lines) \o Flat(Tail(lines))

\* The pieces of word w among the lines, in order.
PiecesOf(lines, w) == SelectSeq(Flat(lines), LAMBDA p : p.w = w)

\* The pieces p of a word of length len are the word cut every width characters.
CutEvery(p, len, width) ==
  /\ p # <<>>
  /\ p[1].from = 0
  /\ p[Len(p)].to = len
  /\ \A k \in 1..(Len(p) - 1) : p[k].to = p[k].from + width /\ p[k + 1].from = p[k].to
  /\ p[Len(p)].to - p[Len(p)].from <= width
  /\ p[Len(p)].to > p[Len(p)].from

\* C26: for a width of 24..64 and any text, no line of wrap(text, width) is
\* longer than the width; a word longer than the width is cut into lines of
\* exactly width characters, the last one may be shorter; the words come out in
\* order, none lost and none twice.
C26_WrapFits ==
  Wrapped =>
    LET lines == lOut.lines
        words == lIn.words
        width == lIn.width
        flat == Flat(lines)
    IN /\ \A i \in 1..Len(lines) : LineLen(lines[i]) <= width
       /\ \A k \in 1..(Len(flat) - 1) : flat[k].w <= flat[k + 1].w
       /\ \A w \in 1..Len(words) :
            /\ words[w] > 0 => CutEvery(PiecesOf(lines, w), words[w], width)
            /\ (words[w] > 0 /\ words[w] <= width) => Len(PiecesOf(lines, w)) = 1
            /\ words[w] > width =>
                 \A i \in 1..Len(lines) :
                   (\E k \in 1..Len(lines[i]) : lines[i][k].w = w) => Len(lines[i]) = 1

\* A text of three words with the second longer than the width: it came out
\* on three lines of its own between the other two words.
C26_Witness ==
  /\ Wrapped
  /\ lIn.width = MaxWidth
  /\ lIn.words = <<12, 2 * MaxWidth + 2, 1>>
  /\ Len(lOut.lines) = 5
  /\ LineLen(lOut.lines[2]) = MaxWidth
  /\ LineLen(lOut.lines[4]) = 2

RowsBuilt == lPhase = "done" /\ lIn.fn = "rows"

\* The column of the last character c of a row; 0 when it has none.
LastColumn(row, c) ==
  LET at == {i \in 1..Len(row) : row[i] = c} IN
  IF at = {} THEN 0 ELSE CHOOSE i \in at : \A j \in at : j <= i

\* C27: for a width of 24..64 the row of amountAlignedRow is exactly width
\* characters long and its value ends in the column where the Amount field
\* of an item row of the same width ends.
C27_AmountColumn ==
  (RowsBuilt /\ lIn.value > 0) =>
    /\ Len(lOut.row) = lIn.width
    /\ LastColumn(lOut.row, "V") = LastColumn(lOut.itemRow, "A")

(***************************************************************************)
(* SpecRender: one renderReceipt over a document.                          *)
(*                                                                         *)
(* A document is the list of the types of its blocks; block i is the one   *)
(* at place i.  A call that prints block i carries <<i>> and the type.     *)
(* The three renderers are the loop over the blocks (receiptRenderer.ts    *)
(* 155-451), the one that prints what parse found (579-775, 1031-1275) and *)
(* the one of image.ts (207-399).                                          *)
(***************************************************************************)
MaxBlocks == 3

ESC_at == <<27, 64>>
ESC_inv == <<27, 123, 0>>
ESC_S == <<27, 83>>
ESC_2 == <<27, 50>>
ESC_r == <<27, 114, 0>>
ESC_t == <<27, 116, 0>>
GS_W == <<29, 87, 40, 2>>
GS_L == <<29, 76, 12, 0>>
ESC_a == <<27, 97, 0>>
LF1 == <<10>>

\* image.ts 128-133 (receiptRenderer.ts 94-99, 900-905): the sends of saneState.
SaneInit == <<ESC_at, ESC_inv, ESC_S, ESC_2, ESC_r, ESC_t>>

\* receiptRenderer.ts 106-115: the margins, for widthDots = 576.
SaneMargins == <<GS_W, GS_L, ESC_a>>

\* await t.printRaw(seqs[k]); await t.printRaw(seqs[k + 1]); ...
RECURSIVE RawEach(_, _, _)
RawEach(t, seqs, k) ==
  IF k > Len(seqs) THEN Resolved(<<>>)
  ELSE Then(PrintRaw(t, seqs[k]), RawEach(t, seqs, k + 1))

\* image.ts 121-135 (receiptRenderer.ts 520, 893-907): saneState.
saneState(t) == IF ~HasRaw(t) THEN Resolved(<<>>) ELSE RawEach(t, SaneInit, 1)

\* receiptRenderer.ts 87-122: saneState with the margins, which are in a try/catch.
saneStateMargins(t) ==
  IF ~HasRaw(t) THEN Resolved(<<>>)
  ELSE Then(RawEach(t, SaneInit, 1), Caught(RawEach(t, SaneMargins, 1)))

TextKinds == {"header", "separator", "item", "bigsummary", "summary", "footer"}

Kinds == {"logo"} \cup TextKinds

\* The printText calls of a block, or of the thank-you line (block 0).
PrintBlock(tr, i, kind) ==
  IF tr.text THEN Resolved(<<Call("printText", <<i>>, kind, TRUE)>>)
             ELSE Rejected(<<Call("printText", <<i>>, kind, FALSE)>>)

\* receiptRenderer.ts 201-209 (609-620, 1075-1086; image.ts 237-241): the logo
\* is fetched, printed and followed by a feed; logo is "ok", or the step that
\* fails: "fetch" or "print".
LogoCalls(tr, i, logo, feed) ==
  LET fetched == Call("fetchLogoBase64ForPrinter", <<i>>, "logo", logo # "fetch")
      printed == Call("printImageBase64", <<i>>, "logo", logo # "print")
  IN IF logo = "fetch" THEN Rejected(<<fetched>>)
     ELSE IF logo = "print" THEN Rejected(<<fetched, printed>>)
     ELSE IF tr.text THEN Resolved(<<fetched, printed, Call("printText", feed, "logo", TRUE)>>)
     ELSE Rejected(<<fetched, printed, Call("printText", feed, "logo", FALSE)>>)

\* The logo without its try/catch.
RenderLogoUncaught(tr, i, logo, feed) == LogoCalls(tr, i, logo, feed)

\* receiptRenderer.ts 200-212 (606-623, 1072-1089; image.ts 234-244).
RenderLogo(tr, i, logo, feed) == Caught(LogoCalls(tr, i, logo, feed))

\* receiptRenderer.ts 192-434: the loop over the blocks, from block i on.
RECURSIVE RenderFrom(_, _, _, _)
RenderFrom(doc, tr, logo, i) ==
  IF i > Len(doc) THEN Resolved(<<>>)
  ELSE Then(IF doc[i] = "logo" THEN RenderLogo(tr, i, logo, LF2)
            ELSE IF doc[i] \in TextKinds THEN PrintBlock(tr, i, doc[i])
            ELSE Resolved(<<>>),
            RenderFrom(doc, tr, logo, i + 1))

\* receiptRenderer.ts 155-451: renderReceipt, the loop over the blocks.
renderReceiptBlocks(doc, tr, logo) ==
  Then(saneStateMargins(tr),
  Then(RenderFrom(doc, tr, logo, 1),
  Then(PrintBlock(tr, 0, "thankyou"), RendererCut(tr))))

\* data.find(b => b.type === kind): the place of the first block, 0 for none.
Find(doc, kind) ==
  LET at == {i \in 1..Len(doc) : doc[i] = kind} IN
  IF at = {} THEN 0 ELSE CHOOSE i \in at : \A j \in at : i <= j

\* The section of the first block of a kind.
Section(doc, tr, kind) ==
  IF Find(doc, kind) = 0 THEN Resolved(<<>>) ELSE PrintBlock(tr, Find(doc, kind), kind)

\* data.filter(b => b.type === 'footer'), printed from block i on.
RECURSIVE Footers(_, _, _)
Footers(doc, tr, i) ==
  IF i > Len(doc) THEN Resolved(<<>>)
  ELSE Then(IF doc[i] = "footer" THEN PrintBlock(tr, i, "footer") ELSE Resolved(<<>>),
            Footers(doc, tr, i + 1))

\* receiptRenderer.ts 560-570 and 602-763 (933-943 and 1068-1264; image.ts
\* 188-198 and 230-388): what parse found, printed section by section.
RenderParsed(doc, tr, logo) ==
  Then(saneState(tr),
  Then(IF Find(doc, "logo") = 0 THEN Resolved(<<>>)
       ELSE RenderLogo(tr, Find(doc, "logo"), logo, LF1),
  Then(Section(doc, tr, "header"),
  Then(Section(doc, tr, "item"),
  Then(Section(doc, tr, "bigsummary"),
  Then(Section(doc, tr, "summary"),
  Then(Footers(doc, tr, 1), PrintBlock(tr, 0, "thankyou"))))))))

\* receiptRenderer.ts 579-775 (1031-1275): renderReceipt over parse.
renderReceiptParsed(doc, tr, logo) == Then(RenderParsed(doc, tr, logo), RendererCut(tr))

\* image.ts 207-399: renderReceipt of image.ts.
renderReceiptOfImage(doc, tr, logo) ==
  Then(RenderParsed(doc, tr, logo), Then(PrintText(tr, LF2), cutWithFallback(tr)))

RenderBy(fn, doc, tr, logo) ==
  CASE fn = "blocks" -> renderReceiptBlocks(doc, tr, logo)
    [] fn = "parsed" -> renderReceiptParsed(doc, tr, logo)
    [] OTHER -> renderReceiptOfImage(doc, tr, logo)

Documents == UNION {[1..n -> Kinds] : n \in 1..MaxBlocks}

\* Any PrinterTransport: cut and printRaw are optional, a priming send may reject.
RenderTransports ==
  {tr \in [kind : {"stub"}, cut : {"absent", "ok"}, hasRaw : BOOLEAN,
           rawFails : {{}, {ESC_at}, {GS_L}}, altFails : {{}}, text : BOOLEAN] :
     ~tr.hasRaw => tr.rawFails = {}}

RenderInit ==
  /\ QueueInit
  /\ RouteIdle
  /\ MatchIdle
  /\ AppIdle
  /\ CutIdle
  /\ LayoutIdle
  /\ PrefsIdle
  /\ savedPrinters = <<>>
  /\ triedBleOnce = FALSE
  /\ dIn \in [doc : Documents, tr : RenderTransports, logo : {"ok", "fetch", "print"}]
  /\ dPhase = "input"
  /\ dFn = "none"
  /\ dOut = NoOut

notRender ==
  <<queueVars, savedPrinters, routeVars, matchVars, appVars, cutVars, triedBleOnce,
    layoutVars, prefsVars, dIn>>

Rendered(fn) ==
  /\ dPhase = "input"
  /\ dPhase' = "done"
  /\ dFn' = fn
  /\ dOut' = RenderBy(fn, dIn.doc, dIn.tr, dIn.logo)
  /\ UNCHANGED notRender

RunRenderBlocks == Rendered("blocks")

RunRenderParsed == Rendered("parsed")

RunRenderOfImage == Rendered("image")

RenderNext ==
  \/ RunRenderBlocks
  \/ RunRenderParsed
  \/ RunRenderOfImage

SpecRender == RenderInit /\ [][RenderNext]_vars

RenderDone == dPhase = "done"

\* The blocks that were printed, in the order of their printing.
Emitted(calls) ==
  LET IsBlock(c) == /\ c.ok
                    /\ \/ c.op = "printImageBase64"
                       \/ c.op = "printText" /\ c.mode \in TextKinds
      e == SelectSeq(calls, IsBlock)
  IN [k \in 1..Len(e) |-> e[k].bytes[1]]

\* C21: the blocks are printed in the order of the document, every block once;
\* only a footer may be printed later than its place, after all other blocks.
C21_DocumentOrder ==
  (RenderDone /\ ~dOut.threw /\ dIn.logo = "ok") =>
    LET e == Emitted(dOut.calls)
        doc == dIn.doc
    IN /\ \A b \in 1..Len(doc) : Cardinality({k \in 1..Len(e) : e[k] = b}) = 1
       /\ \A i, j \in 1..Len(e) :
            (i < j /\ e[i] > e[j]) =>
              \A k \in j..Len(e) : doc[e[k]] = "footer"

\* The priming sends of the transport all resolve.
PrimingWorks(tr) == \A k \in 1..Len(SaneInit) : SaneInit[k] \notin tr.rawFails

WithoutLogo(calls) == SelectSeq(calls, LAMBDA c : c.mode # "logo")

\* C22: when the fetch or the print of the logo fails, the render does not
\* throw and goes on as it does after a logo that printed: the same blocks,
\* the thank-you line and the cut step.
C22_LogoFailureSkipped ==
  (RenderDone /\ dIn.logo # "ok" /\ dIn.tr.text /\ PrimingWorks(dIn.tr)) =>
    /\ ~dOut.threw
    /\ WithoutLogo(dOut.calls) = WithoutLogo(RenderBy(dFn, dIn.doc, dIn.tr, "ok").calls)
    /\ \E k \in 1..Len(dOut.calls) : dOut.calls[k].mode = "thankyou" /\ dOut.calls[k].ok
    /\ HasCut(dIn.tr) => dOut.calls[Len(dOut.calls)].op = "cut"

\* The print of the logo failed in the loop over the blocks; the header after
\* it, the thank-you line and the cut followed.
C22_Witness ==
  /\ RenderDone
  /\ dFn = "blocks"
  /\ dIn.doc = <<"logo", "header">>
  /\ dIn.logo = "print"
  /\ dIn.tr.cut = "ok"
  /\ ~dIn.tr.hasRaw
  /\ ~dOut.threw
  /\ Len(dOut.calls) = 5
  /\ dOut.calls[2].op = "printImageBase64" /\ ~dOut.calls[2].ok
  /\ dOut.calls[3].mode = "header"
  /\ dOut.calls[4].mode = "thankyou"
  /\ dOut.calls[5].op = "cut"

\* C23: priming is best-effort: without printRaw nothing is sent, and when a
\* priming send fails the render does not throw and prints the blocks it
\* prints on a transport whose priming works.
C23_PrimingBestEffort ==
  (RenderDone /\ dIn.tr.text) =>
    /\ ~HasRaw(dIn.tr) => \A k \in 1..Len(dOut.calls) : dOut.calls[k].op # "printRaw"
    /\ ~dOut.threw
    /\ Emitted(dOut.calls) =
         Emitted(RenderBy(dFn, dIn.doc, [dIn.tr EXCEPT !.rawFails = {}], dIn.logo).calls)

(* Disabled profiles and the resolvers. *)
\* C31: a profile whose enabled flag is false is never the answer of a
\* resolver: neither of findSavedByIpToken, which routing uses, nor of the
\* store's resolveSavedPrinterByIpTokenInList.
C31_DisabledNeverSelected ==
  mPhase = "matched" =>
    /\ mFound # NoProfile => mFound.enabled
    /\ mStoreFound # NoProfile => mStoreFound.enabled

(* The direct-socket cut of the network transport. *)
\* The positions of the calls of `calls` that satisfy Test.
Where(calls, Test(_)) == {k \in 1..Len(calls) : Test(calls[k])}

\* A call that put bytes on a socket of the printer: a direct socket or the
\* SDK's socket.
Wrote(c) == c.op \in {"sendTcpBytes", "printRawData"} /\ c.ok

IsCutOpcode(bytes) == bytes \in {GS_V_0, GS_V_1}

NetCutDone == cPhase = "done" /\ cFn.name = "cut" /\ cTransport.kind = "net"

BleCutDone == cPhase = "done" /\ cFn.name = "cut" /\ cTransport.kind = "ble"

\* A BLE raw write of a cut opcode that reported no error.  Whether the
\* firmware acted on it is not visible to the code: a write that the firmware
\* ignores is such a write.
BleCutWrites ==
  Where(cOut.calls, LAMBDA c : c.op = "tryBleRaw" /\ c.bytes # ESC_d_5 /\ c.ok)

\* C33: when the BLE raw write of the cut opcodes reports no error and may
\* have been ignored by the firmware, BLEPrinterService.cut sends the same
\* opcodes over a classic RFCOMM connection before it returns.
C33_IgnoredBleCutFallsBack ==
  (BleCutDone /\ BleCutWrites # {}) =>
    \A k \in BleCutWrites :
      \E j \in Where(cOut.calls, LAMBDA c : c.op = "sendClassicOnce") :
        j > k /\ cOut.calls[j].bytes = cOut.calls[k].bytes

(* The width of the item table. *)
TableBuilt == lPhase = "done" /\ lIn.fn = "table"

\* C40: for a width of 24..64 every row of the item table (the header, the
\* row of an item, the rows of the further lines of its name and of its
\* sub-line) is at most width characters long.
C40_TableRowsFit ==
  TableBuilt => \A k \in 1..Len(lOut.table) : Len(lOut.table[k]) <= lIn.width

(***************************************************************************)
(* The payloads that the PRINT_JSON listener hands to renderReceipt.       *)
(***************************************************************************)
\* Lines 790-794: buildKitchenPayload.
buildKitchenPayload(payload, kitchenBlock) ==
  [payload EXCEPT !.cashierIps = <<>>, !.cashier = FALSE, !.kitchen = <<kitchenBlock>>]

\* Lines 795-800: buildSingleKitchenItemPayload.
buildSingleKitchenItemPayload(payload, kitchenBlock, item) ==
  [payload EXCEPT !.cashierIps = <<>>, !.cashier = FALSE,
                  !.kitchen = <<[kitchenBlock EXCEPT !.items = <<item>>]>>]

\* Line 1298: cashierPayload.
CashierPayload(json) == [json EXCEPT !.kitchen = <<>>]

\* Lines 1062-1077: the payload that handleMultiLanPrint(json) prints on target t.
TargetPayload(json, t) ==
  IF t.type = "cashier" THEN json
  ELSE LET block == json.kitchen[t.blockIdx + 1]
       IN IF t.hasItem THEN buildSingleKitchenItemPayload(json, block, t.item)
                       ELSE buildKitchenPayload(json, block)

\* Lines 1345-1358: the payloads of the legacy loop over the kitchen blocks.
LegacyPayloads(json) ==
  LET F[i \in 0..Len(json.kitchen)] ==
        IF i = 0 THEN <<>>
        ELSE LET kb == json.kitchen[i]
             IN IF kb.individual
                  THEN F[i - 1] \o [n \in 1..Len(kb.items) |->
                                      buildSingleKitchenItemPayload(json, kb, kb.items[n])]
                  ELSE Append(F[i - 1], buildKitchenPayload(json, kb))
  IN F[Len(json.kitchen)]

\* The render the listener's job t is in: the printer it writes to and the
\* payload it was given (lines 1313, 1321; 954, 960 under 1336; 1351, 1356).
EventRender(t) ==
  LET r == tasks[t] IN
  CASE r.pc \in {"ble_rendering", "ble_rendering2"} ->
         [to |-> "ble", payload |-> CashierPayload(r.json)]
    [] r.pc \in {"ps_rendering", "ps_rendering2"} ->
         [to |-> "net", payload |-> TargetPayload(RoutedJson(t), r.targets[r.ti])]
    [] OTHER ->
         [to |-> "net",
          payload |-> LegacyPayloads(r.json)[LegacyTickets(r.json.kitchen) - r.left + 1]]

EventRenders ==
  {t \in Started : KindOf(t) = "event" /\ t \in rendering}

\* The payload is one kitchen block of json and nothing else: the whole
\* block, or the block with one of its items when it is printed item by item.
SingleKitchenBlock(payload, json) ==
  /\ ~payload.cashier
  /\ payload.cashierIps = <<>>
  /\ Len(payload.kitchen) = 1
  /\ \E b \in 1..Len(json.kitchen) :
       IF json.kitchen[b].individual
         THEN \E n \in 1..Len(json.kitchen[b].items) :
                payload.kitchen[1] = [json.kitchen[b] EXCEPT !.items = <<json.kitchen[b].items[n]>>]
         ELSE payload.kitchen[1] = json.kitchen[b]

\* C38: while the listener of PRINT_JSON handles a payload, the Bluetooth
\* printer is rendered the payload without its kitchen_print blocks only, and
\* a network printer is rendered one kitchen_print block only (the whole
\* block, or one item of a block printed item by item), never the receipt.
C38_StrictSplit ==
  \A t \in EventRenders :
    LET r == EventRender(t) IN
    IF r.to = "ble"
      THEN r.payload.kitchen = <<>> /\ r.payload.cashier = tasks[t].json.cashier
      ELSE SingleKitchenBlock(r.payload, tasks[t].json)

\* The listener renders the second item of an item-by-item block of a receipt
\* with cashier blocks on a saved network printer.
C38_Witness ==
  \E t \in EventRenders :
    /\ tasks[t].pc = "ps_rendering"
    /\ tasks[t].json.cashier
    /\ Len(tasks[t].json.kitchen[1].items) = 2
    /\ EventRender(t).payload.kitchen[1].items = <<ItemA(2)>>

(***************************************************************************)
(* SpecList: the profile list of the routing jobs.  savedPrinters is React *)
(* state (line 827); the job passed to enqueuePrint is a closure of the    *)
(* render that registered the listener (1290-1293, dependencies 1453), and *)
(* handleMultiLanPrint reads the savedPrinters of that closure (998).  The *)
(* drawer changes the state while jobs wait: Remove (1636-1637), the Add   *)
(* Printer dialog (1714-1720) and the boot and foreground effects (1227,   *)
(* 1264).                                                                  *)
(***************************************************************************)
ListChoices == {<<>>, <<Printer9100>>, <<Printer9100, Printer9101>>}

\* No promise reaction is pending: an event handler runs only then.
Drained ==
  \A i \in 1..Len(jobs) :
    /\ ~(body[i] = "idle" /\ p1[i] = "pending" /\ ChainState(jobs[i].prev) # "pending")
    /\ ~(p1[i] # "pending" /\ p2[i] = "pending")
    /\ ~(p2[i] # "pending" /\ p3[i] = "pending")

ListInit ==
  /\ QueueInit
  /\ RouteIdle
  /\ MatchIdle
  /\ CutIdle
  /\ SideIdle
  /\ cfg = [NoCfg EXCEPT !.enableMultiNet = TRUE]
  /\ savedPrinters \in ListChoices
  /\ bleConnected = FALSE
  /\ lanConnected = FALSE
  /\ lanOpen = FALSE
  /\ bleOpen = FALSE
  /\ tasks = [t \in 0..MaxJobs |-> IdleTask]
  /\ rendering = {}

\* Lines 1291-1292: a PRINT_JSON event; the job closes over the state of the
\* render that registered the listener.
ListPrintJson ==
  /\ Drained
  /\ Len(jobs) < MaxPrintJobs + 1
  /\ Enqueue("event")
  /\ SetTask(Len(jobs) + 1, QueuedTask(GroupDoc))
  /\ UNCHANGED <<fixedVars, bleConnected, lanConnected, lanOpen, bleOpen, rendering>>

\* Lines 1636-1637, 1714-1720, 1227, 1264: setSavedPrinters(next).
SetSavedPrinters ==
  /\ Drained
  /\ \E next \in ListChoices \ {savedPrinters} : savedPrinters' = next
  /\ UNCHANGED <<queueVars, routeVars, matchVars, appVars, cutVars, sideVars>>

\* Line 850 and lines 1334-1336, 998: the chain calls the job, which routes
\* with  const list = savedPrinters  of its closure.
ListStartJob ==
  \E i \in 1..MaxJobs :
    /\ ThenJob(i)
    /\ IF ThenCallsJob(i)
         THEN SetTask(i, [tasks[i] EXCEPT !.pc = "mr_resolve",
                                          !.list = tasks[i].savedPrinters])
         ELSE UNCHANGED tasks
    /\ UNCHANGED <<fixedVars, bleConnected, lanConnected, lanOpen, bleOpen, rendering>>

\* The job returns or throws.
ListJobSettles ==
  \E i \in 1..MaxJobs, ok \in BOOLEAN :
    /\ JobSettle(i, ok)
    /\ SetTask(i, [tasks[i] EXCEPT !.pc = "end"])
    /\ UNCHANGED <<fixedVars, bleConnected, lanConnected, lanOpen, bleOpen, rendering>>

ListNext ==
  \/ ListPrintJson
  \/ SetSavedPrinters
  \/ ListStartJob
  \/ ListJobSettles
  \/ ChainCatch
  \/ ChainThen

SpecList == ListInit /\ [][ListNext]_vars

\* C34: the profile list a routing job uses is the list stored when the job
\* starts executing, not the one of the time it was enqueued, and it does not
\* change while the job runs.
C34_ListOfJobStart ==
  [][\A i \in 1..Len(jobs) :
       /\ (body[i] = "idle" /\ body'[i] = "running") => tasks'[i].list = savedPrinters
       /\ (body[i] = "running" /\ body'[i] = "running") => tasks'[i].list = tasks[i].list]_vars

(***************************************************************************)
(* SpecQueueLive: enqueuePrint when promise reactions run and every job    *)
(* settles.  A reaction is a microtask: once its promise has settled it is *)
(* run.  A job settles when the calls it awaits do.                        *)
(***************************************************************************)
SpecQueueLive == QueueOnlyInit /\ [][QueueNext]_vars /\ WF_vars(RunThenJob) /\ WF_vars(AnyJobSettles) /\ WF_vars(RunCatchStep) /\ WF_vars(RunThenVoid)

\* C39: every job passed to enqueuePrint eventually starts, when every job
\* before it settles (returns or throws): none is dropped or left waiting
\* behind a settled job.
C39_EveryJobStarts ==
  \A i \in 1..MaxJobs : (Len(jobs) >= i) ~> (Len(jobs) >= i /\ body[i] # "idle")

\* The fourth job runs behind a job that threw, one that returned and
\* another that threw.
C39_Witness ==
  /\ Len(jobs) >= 4
  /\ body[1] = "threw"
  /\ body[2] = "returned"
  /\ body[3] = "threw"
  /\ body[4] = "running"

(***************************************************************************)
(* SpecPrefs: the preference file of src/services/prefs.ts under calls of  *)
(* writePrefs and getNetPrinters.  writePrefs awaits readPrefs and then    *)
(* RNFS.writeFile: calls in flight interleave between the two.             *)
(***************************************************************************)
\* Number of writePrefs calls of a run.
MaxWriters == 2

\* prefs.ts 76-90: the profile that normalizePrefs seeds from the legacy ip/port.
DefaultProfile(prefs) ==
  [host |-> prefs.ip,
   port |-> IF prefs.port > 0 THEN prefs.port ELSE DEFAULT_NET_PORT,
   enabled |-> TRUE, copies |-> 1]

\* A variant of the migration that seeds nothing.
NothingSeeded(prefs) == prefs.netPrinters

\* prefs.ts 78-90: netPrinters after the migration step.
Migrated(prefs) ==
  IF Len(prefs.netPrinters) = 0 /\ prefs.ip # ""
    THEN <<DefaultProfile(prefs)>> ELSE prefs.netPrinters

\* prefs.ts 63-96: normalizePrefs.
normalizePrefs(raw) ==
  LET list == Migrated(raw)
  IN [raw EXCEPT !.netPrinters = [i \in 1..Len(list) |-> normalizeProfile(list[i])]]

\* prefs.ts 132: { ...curr, ...partial }.
Merge(curr, partial) ==
  [f \in DOMAIN curr |-> IF f \in partial.keys THEN partial.val[f] ELSE curr[f]]

\* prefs.ts 146-150: the argument setNetPrinters gives to writePrefs.
NetPrintersPartial(list) ==
  [keys |-> {"netPrinters"},
   val |-> [NoPrefs EXCEPT !.netPrinters = [i \in 1..Len(list) |-> normalizeProfile(list[i])]]]

\* prefs.ts 159-161: the argument setEnableMultiNet gives to writePrefs.
EnableMultiNetPartial(value) ==
  [keys |-> {"enableMultiNet"}, val |-> [NoPrefs EXCEPT !.enableMultiNet = value]]

\* DrawerContent.tsx 890: writePrefs({ btAddress, btName }).
BtPartial == [keys |-> {"btAddress"}, val |-> [NoPrefs EXCEPT !.btAddress = "m1"]]

\* DrawerContent.tsx 1094: writePrefs({ ip, port }).
IpPartial == [keys |-> {"ip", "port"}, val |-> [NoPrefs EXCEPT !.ip = "h2", !.port = 9101]]

Partials ==
  {NetPrintersPartial(l) : l \in {<<>>, <<Printer9100>>}}
    \cup {EnableMultiNetPartial(TRUE), BtPartial, IpPartial}

\* The file of a fresh install, the file of a version without profiles and a
\* file with a saved profile.
PrefFiles ==
  {NoPrefs,
   [NoPrefs EXCEPT !.ip = "h1"],
   [NoPrefs EXCEPT !.ip = "h1", !.netPrinters = <<normalizeProfile(Printer9101)>>]}

PrefsInit ==
  /\ QueueInit
  /\ RouteIdle
  /\ MatchIdle
  /\ AppIdle
  /\ CutIdle
  /\ LayoutIdle
  /\ RenderIdle
  /\ savedPrinters = <<>>
  /\ triedBleOnce = FALSE
  /\ prefFile \in PrefFiles
  /\ writers = <<>>
  /\ got = NoGot

notPrefs ==
  <<queueVars, savedPrinters, routeVars, matchVars, appVars, cutVars, triedBleOnce,
    layoutVars, renderVars>>

InFlight == {k \in 1..Len(writers) : writers[k].pc # "done"}

\* prefs.ts 128: writePrefs(partial) is called; `with` is the calls in flight
\* then and `before` the file then.
CallWritePrefs ==
  /\ Len(writers) < MaxWriters
  /\ \E partial \in Partials :
       writers' = Append(writers, [pc |-> "called", partial |-> partial, curr |-> NoPrefs,
                                   with |-> InFlight, before |-> prefFile])
  /\ UNCHANGED <<notPrefs, prefFile, got>>

\* prefs.ts 130 and 116-126: const curr = await readPrefs().
WriterReads ==
  \E k \in 1..Len(writers) :
    /\ writers[k].pc = "called"
    /\ writers' = [writers EXCEPT ![k].pc = "read", ![k].curr = normalizePrefs(prefFile)]
    /\ UNCHANGED <<notPrefs, prefFile, got>>

\* prefs.ts 132-133: next = normalizePrefs({ ...curr, ...partial }); writeFile(next).
WriterWrites ==
  \E k \in 1..Len(writers) :
    /\ writers[k].pc = "read"
    /\ prefFile' = normalizePrefs(Merge(writers[k].curr, writers[k].partial))
    /\ writers' = [writers EXCEPT ![k].pc = "done"]
    /\ UNCHANGED <<notPrefs, got>>

\* prefs.ts 140-143: getNetPrinters(); `after` is the calls of writePrefs made
\* before it.
GetNetPrinters ==
  /\ got.phase = "none"
  /\ got' = [phase |-> "got", list |-> normalizePrefs(prefFile).netPrinters, after |-> writers]
  /\ UNCHANGED <<notPrefs, prefFile, writers>>

PrefsNext ==
  \/ CallWritePrefs
  \/ WriterReads
  \/ WriterWrites
  \/ GetNetPrinters

SpecPrefs == PrefsInit /\ [][PrefsNext]_vars

\* C35: setNetPrinters(L) followed by getNetPrinters() returns the normalized
\* profiles of L, for every L, the empty list included, and whatever legacy
\* ip/port the file holds.
C35_SetThenGet ==
  (/\ got.phase = "got"
   /\ Len(got.after) = 1
   /\ got.after[1].pc = "done"
   /\ got.after[1].partial.keys = {"netPrinters"})
  => got.list = got.after[1].partial.val.netPrinters

\* A writePrefs that was not given netPrinters writes the file in this step.
WritesOtherKeys(k) ==
  /\ writers[k].pc = "read"
  /\ writers'[k].pc = "done"
  /\ "netPrinters" \notin writers[k].partial.keys

\* C36: the profile seeded from the legacy ip/port is not written to the file:
\* reading the preferences leaves the file as it is, and a writePrefs of other
\* keys does not put the seeded profile in the file's list.
C36_MigrationNotWritten ==
  [][/\ (got' # got \/ \E k \in 1..Len(writers) : writers[k].pc = "called" /\ writers'[k].pc = "read")
          => prefFile' = prefFile
     /\ \A k \in 1..Len(writers) :
          WritesOtherKeys(k) =>
            \A i \in 1..Len(prefFile'.netPrinters) :
              prefFile'.netPrinters[i] = DefaultProfile(prefFile') =>
                \E j \in 1..Len(prefFile.netPrinters) :
                  prefFile.netPrinters[j] = prefFile'.netPrinters[i]]_vars

\* C37: two writePrefs calls with different keys that were in flight together
\* have both completed: the file holds the values of both, and every key given
\* in neither holds the value it had before them.
C37_NoLostUpdate ==
  (/\ Len(writers) >= 2
   /\ writers[1].pc = "done"
   /\ writers[2].pc = "done"
   /\ 1 \in writers[2].with
   /\ Len(writers) > 2 => writers[3].pc = "called"
   /\ writers[1].partial.keys \cap writers[2].partial.keys = {})
  => \A f \in DOMAIN prefFile :
       /\ f \in writers[1].partial.keys => prefFile[f] = writers[1].partial.val[f]
       /\ f \in writers[2].partial.keys => prefFile[f] = writers[2].partial.val[f]
       /\ f \notin (writers[1].partial.keys \cup writers[2].partial.keys)
            => prefFile[f] = writers[1].before[f]

====
